---- MODULE Spec2Model ----
(***************************************************************************)
(* Model of the download orchestration of jsdownloader:                    *)
(*   lib/downloadManager.js  DownloadManager (dispatch, sequential and     *)
(*                           concurrent batches, executeConcurrently)      *)
(*   lib/httpDownloader.js   HttpDownloader.download / downloadWithRetry   *)
(*   ftp, sftp, youtube      the same retry loop, reading config.download  *)
(*   torrent                 TorrentDownloader.download (no retry loop)    *)
(*                                                                         *)
(* One action is one run-to-completion step of the JavaScript event loop   *)
(* or one continuation of an async function.  Continuations (microtasks)   *)
(* run before the next I/O or timer event, which the I/O actions express   *)
(* with the guard Quiescent.                                               *)
(***************************************************************************)
EXTENDS Integers, Sequences, FiniteSets, TLC

(***************************************************************************)
(* Bounds of the model.                                                    *)
(***************************************************************************)
MaxUrls == 3
MaxConcurrent == 2
MaxRetries == 3
MaxDelay == 2
MaxSize == 2
MaxFiles == 2

(***************************************************************************)
(* Targets.  A target is named by an identifier; UrlOf gives what the      *)
(* recognizers read of it: whether the text starts with 'magnet:',         *)
(* whether new URL(text) parses, and the parsed protocol and hostname      *)
(* (the hostname as its sequence of characters).                           *)
(***************************************************************************)
HostNone == <<>>
HostExample == <<"e","x","a","m","p","l","e",".","c","o","m">>
HostYoutube == <<"w","w","w",".","y","o","u","t","u","b","e",".","c","o","m">>
HostYoutuBe == <<"y","o","u","t","u",".","b","e">>

AllTargets ==
    {"magnet", "http", "https", "ftp", "sftp", "yt_https", "yt_short",
     "yt_ftp", "yt_sftp", "file", "text"}

BatchTargets == {"http", "file"}

UrlOf(t) ==
    CASE t = "magnet"   -> [magnetPrefix |-> TRUE,  parses |-> TRUE,  protocol |-> "magnet:", hostname |-> HostNone]
      [] t = "http"     -> [magnetPrefix |-> FALSE, parses |-> TRUE,  protocol |-> "http:",   hostname |-> HostExample]
      [] t = "https"    -> [magnetPrefix |-> FALSE, parses |-> TRUE,  protocol |-> "https:",  hostname |-> HostExample]
      [] t = "ftp"      -> [magnetPrefix |-> FALSE, parses |-> TRUE,  protocol |-> "ftp:",    hostname |-> HostExample]
      [] t = "sftp"     -> [magnetPrefix |-> FALSE, parses |-> TRUE,  protocol |-> "sftp:",   hostname |-> HostExample]
      [] t = "yt_https" -> [magnetPrefix |-> FALSE, parses |-> TRUE,  protocol |-> "https:",  hostname |-> HostYoutube]
      [] t = "yt_short" -> [magnetPrefix |-> FALSE, parses |-> TRUE,  protocol |-> "https:",  hostname |-> HostYoutuBe]
      [] t = "yt_ftp"   -> [magnetPrefix |-> FALSE, parses |-> TRUE,  protocol |-> "ftp:",    hostname |-> HostYoutube]
      [] t = "yt_sftp"  -> [magnetPrefix |-> FALSE, parses |-> TRUE,  protocol |-> "sftp:",   hostname |-> HostYoutuBe]
      [] t = "file"     -> [magnetPrefix |-> FALSE, parses |-> TRUE,  protocol |-> "file:",   hostname |-> HostNone]
      [] t = "text"     -> [magnetPrefix |-> FALSE, parses |-> FALSE, protocol |-> "",        hostname |-> HostNone]

(***************************************************************************)
(* String.prototype.includes on character sequences.                       *)
(***************************************************************************)
Includes(hay, needle) ==
    \E k \in 0..(Len(hay) - Len(needle)) :
        \A j \in 1..Len(needle) : hay[k + j] = needle[j]

(***************************************************************************)
(* The recognizers (static predicates of the downloader classes).          *)
(***************************************************************************)
isValidMagnetUri(u) == u.magnetPrefix

isValidYouTubeUrl(u) ==
    /\ u.parses
    /\ \/ Includes(u.hostname, <<"y","o","u","t","u","b","e",".","c","o","m">>)
       \/ Includes(u.hostname, <<"y","o","u","t","u",".","b","e">>)
       \/ Includes(u.hostname, <<"m",".","y","o","u","t","u","b","e",".","c","o","m">>)

isValidFtpUrl(u) == u.parses /\ u.protocol = "ftp:"

isValidSftpUrl(u) == u.parses /\ u.protocol = "sftp:"

isValidUrl(u) == u.parses /\ u.protocol \in {"http:", "https:"}

(***************************************************************************)
(* The branch DownloadManager.downloadSingle takes for a target.           *)
(***************************************************************************)
DispatchHttpFirst(t) ==
    LET u == UrlOf(t) IN
    IF isValidMagnetUri(u) THEN "torrent"
    ELSE IF isValidUrl(u) THEN "http"
    ELSE IF isValidYouTubeUrl(u) THEN "youtube"
    ELSE IF isValidFtpUrl(u) THEN "ftp"
    ELSE IF isValidSftpUrl(u) THEN "sftp"
    ELSE "none"

Dispatch(t) ==
    LET u == UrlOf(t) IN
    IF isValidMagnetUri(u) THEN "torrent"
    ELSE IF isValidYouTubeUrl(u) THEN "youtube"
    ELSE IF isValidFtpUrl(u) THEN "ftp"
    ELSE IF isValidSftpUrl(u) THEN "sftp"
    ELSE IF isValidUrl(u) THEN "http"
    ELSE "none"

(***************************************************************************)
(* Strategy classes.                                                       *)
(***************************************************************************)
\* strategies whose download() wraps performDownload in downloadWithRetry
RetryStrategies == {"http", "ftp", "sftp", "youtube"}
\* strategies whose destination downloadSingle resolves with getDestinationPath
DestinationStrategies == {"ftp", "sftp", "http"}
\* strategies that read the configuration as properties (this.config.download,
\* this.config.torrent) instead of through config.get(section, key)
SectionStrategies == {"ftp", "sftp", "youtube", "torrent"}

VARIABLES
    urls,          \* the batch: sequence of targets (downloadMultiple's urls)
    concurrent,    \* options.concurrent
    stopOnError,   \* options.stopOnError
    config,        \* [maxRetries, retryDelay, sections]
    pc,            \* position of downloadMultiple and its callee
    i,             \* loop index of downloadSequentially
    task,          \* per target: the state of its downloadSingle call
    results,       \* results array of the running batch
    errors,        \* errors array of the running batch
    next,          \* executeConcurrently: number of promises taken by the loop
    executing,     \* executeConcurrently: the executing array
    raceSet,       \* the promises Promise.race was called with
    settled,       \* the wrapper promises p that are fulfilled
    returned,      \* the value downloadMultiple resolved with
    env,           \* one HTTP download in detail: options read, server, disk before
    disk,          \* per path: size of the file and of its .resume marker
    dl,            \* the call of HttpDownloader.download and its attempt
    tracker,       \* ProgressDisplay: downloads, startTimes, lastUpdate
    feed,          \* per transfer that reports progress: strategy, phase, bytes
    call,          \* the last call of startDownload/completeDownload/errorDownload
    display,       \* one tracked download on the clock: renderings of its line
    bar,           \* one call of drawProgressBar: its input and what it drew
    file,          \* the list file of downloadFromFile: lines, warnings, error
    dests,         \* two downloads of one batch and the files of the directory
    emitted,       \* batch-complete events issued: log entries, notifications
    legacy,        \* the single-file script jsdownloader.js on a list file
    sample,        \* one entry's speed sample on the clock: calculateSpeed
    redir          \* one HTTP attempt through its redirects: requests, redirectCount

\* the batch and its transfers
batch == <<urls, concurrent, stopOnError, config, pc, i, task, results, errors,
           next, executing, raceSet, settled, returned>>

\* the components modelled in detail
progress == <<tracker, feed, call>>
\* the components with a specification of their own
extras == <<display, bar, file, dests, emitted, legacy, sample, redir>>
parts == <<env, disk, dl, progress, extras>>

\* what the actions of each of these specifications leave alone
core == <<batch, env, disk, dl, progress>>
offDisplay == <<core, bar, file, dests, emitted, legacy, sample, redir>>
offBar == <<core, display, file, dests, emitted, legacy, sample, redir>>
offDests == <<core, display, bar, file, emitted, legacy, sample, redir>>
offEmitted == <<env, disk, dl, progress, display, bar, file, dests, legacy,
                sample, redir>>
offLegacy == <<core, display, bar, file, dests, emitted, sample, redir>>
offSample == <<core, display, bar, file, dests, emitted, legacy, redir>>
offRedir == <<core, display, bar, file, dests, emitted, legacy, sample>>

vars == <<batch, parts>>

inputs == <<urls, concurrent, stopOnError, config>>

N == Len(urls)

(***************************************************************************)
(* Errors and per-target state.                                            *)
(***************************************************************************)
NoError == [kind |-> "none", attempt |-> 0]
Err(kind, attempt) == [kind |-> kind, attempt |-> attempt]

\* seeding: the torrent is complete, handleSeeding has not resolved yet
InFlight == {"running", "sleeping", "seeding"}
\* the promise of downloadSingle is settled, the caller has not continued yet
Settled == {"resolved", "rejected"}
\* the caller has pushed the outcome to results
Recorded == {"success", "failure"}
Terminal == Settled \cup Recorded

NewTask ==
    [status |-> "unstarted", strategy |-> "none", attempt |-> 0, calls |-> 0,
     log |-> <<>>, sleeps |-> <<>>, lastError |-> NoError, error |-> NoError,
     result |-> 0, dsCalls |-> 0]

(***************************************************************************)
(* downloadWithRetry: the pieces of the loop.                              *)
(***************************************************************************)
RECURSIVE Pow2(_)
Pow2(n) == IF n <= 0 THEN 1 ELSE 2 * Pow2(n - 1)

BackoffConstant(d, attempt) == d

\* const delay = retryDelay * Math.pow(2, attempt - 1)
Backoff(d, attempt) == d * Pow2(attempt - 1)

\* if (attempt < maxRetries) { ... await this.sleep(delay) }
SleepsAfter(attempt, maxRetries) == attempt < maxRetries

KeepFirstError(prev, err) == IF prev = NoError THEN err ELSE prev

\* lastError = error
NextLastError(prev, err) == err

\* strategies whose attempt carries an inactivity timer for its whole length
\* (the timeout option of the HTTP request); the FTP and SFTP timeouts bound
\* the connection set-up only, the video and torrent strategies set none
TimeoutStrategies == {"http"}

\* handleSeeding: if (seedTime === 0 && ratioLimit === 0) resolve at once
Seeds(c) == ~(c.seedTime = 0 /\ c.ratioLimit = 0)

(***************************************************************************)
(* downloadSingle up to its first suspension: dispatch, destination,       *)
(* download(), downloadWithRetry's first call of performDownload.          *)
(* destThrows: getDestinationPath throws ('File already exists', policy    *)
(* skip).                                                                  *)
(***************************************************************************)
StartTransfer(t, destThrows) ==
    LET s == Dispatch(t)
        called == [NewTask EXCEPT !.strategy = s, !.dsCalls = 1]
    IN  IF s = "none"
        THEN [called EXCEPT !.status = "rejected", !.error = Err("unsupported", 0)]
        ELSE IF s \in DestinationStrategies /\ destThrows
        THEN [called EXCEPT !.status = "rejected", !.error = Err("exists", 0)]
        ELSE IF s \in SectionStrategies /\ ~config.sections
        THEN [called EXCEPT !.status = "rejected", !.error = Err("typeerror", 0)]
        ELSE [called EXCEPT !.status = "running", !.attempt = 1, !.calls = 1]

(***************************************************************************)
(* Array helpers of the orchestrator.                                      *)
(***************************************************************************)
\* Array.prototype.indexOf, 1-based; 0 when absent (JavaScript's -1)
IndexOf(seq, x) ==
    IF \E k \in 1..Len(seq) : seq[k] = x
    THEN CHOOSE k \in 1..Len(seq) : seq[k] = x /\ \A m \in 1..(k - 1) : seq[m] # x
    ELSE 0

RemoveAt(seq, k) == [m \in 1..(Len(seq) - 1) |-> IF m < k THEN seq[m] ELSE seq[m + 1]]

\* executing.splice(executing.indexOf(p), 1): index -1 removes the last element
Splice(seq, x) ==
    IF Len(seq) = 0 THEN seq
    ELSE IF IndexOf(seq, x) = 0 THEN RemoveAt(seq, Len(seq))
    ELSE RemoveAt(seq, IndexOf(seq, x))

Range(seq) == {seq[k] : k \in 1..Len(seq)}

CountAll(rs) == Len(rs)

\* results.filter(r => r.success).length
SuccessCount(rs) == Cardinality({k \in 1..Len(rs) : rs[k].success})

RECURSIVE InsertByIndex(_, _)
InsertByIndex(sorted, r) ==
    IF sorted = <<>> THEN <<r>>
    ELSE IF r.index < sorted[1].index THEN <<r>> \o sorted
    ELSE <<sorted[1]>> \o InsertByIndex(Tail(sorted), r)

RECURSIVE SortFrom(_, _)
SortFrom(rs, acc) ==
    IF rs = <<>> THEN acc ELSE SortFrom(Tail(rs), InsertByIndex(acc, rs[1]))

Unsorted(rs) == rs

\* results.sort((a, b) => a.index - b.index)
SortByIndex(rs) == SortFrom(rs, <<>>)

AnySettled(done, n) == done # {}

\* Promise.all(results): every wrapper promise is fulfilled
AllSettled(done, n) == done = 1..n

NeverSequential(c) == FALSE

\* if (concurrent === 1) downloadSequentially else downloadConcurrently
UseSequential(c) == c = 1

AlwaysBreak(stop) == TRUE

NeverBreak(stop) == FALSE

\* if (options.stopOnError) break
ShouldBreak(stop) == stop

\* if (executing.length >= maxConcurrent) await Promise.race(executing)
MustRace(len, maxConcurrent) == len >= maxConcurrent

RaceNeverResumes(racing, j) == FALSE

\* await Promise.race(executing) resumes when a promise it was called with is
\* fulfilled
RaceResumes(racing, j) == j \in racing

\* result.stats.size of the transfer of input j: the resource of the j-th url
\* has j bytes
StatsSize(j) == j

AssignSize(total, r) == IF r.success THEN r.size ELSE total

\* totalSize += result.stats?.size || 0, in the success branch only
AddSize(total, r) == IF r.success THEN total + r.size ELSE total

\* totalSize after the entries rs were pushed, in the order of the pushes
RECURSIVE TotalSizeAfter(_)
TotalSizeAfter(rs) ==
    IF rs = <<>> THEN 0
    ELSE AddSize(TotalSizeAfter(SubSeq(rs, 1, Len(rs) - 1)), rs[Len(rs)])

Stats(rs, es) ==
    [total |-> N, successful |-> SuccessCount(rs), failed |-> Len(es),
     totalSize |-> TotalSizeAfter(rs)]

(***************************************************************************)
(* The resume store of FileManager and the destination of a download.      *)
(* A path is "base" (the name taken from the url) or "fresh" (the first    *)
(* unused name generateUniqueFilename finds).                              *)
(***************************************************************************)
\* no file at the path / no marker: existsSync is false, getResumeInfo is null
Absent == -1

Paths == {"base", "fresh"}

NoDisk == [p \in Paths |-> [size |-> Absent, marker |-> Absent]]

\* handleDuplicateFile(base): the path to write to, or "throw"
HandleDuplicateFile(d, policy) ==
    IF d["base"].size = Absent THEN "base"
    ELSE CASE policy = "skip" -> "throw"
           [] policy = "overwrite" -> "base"
           [] OTHER -> "fresh"

\* getResumeInfo(path): the marker's downloadedSize, Absent for null
GetResumeInfo(d, path) == d[path].marker

\* createResumeInfo(path, url, totalSize): downloadedSize: 0
CreateResumeInfo(d, path) == [d EXCEPT ![path].marker = 0]

\* updateResumeInfo(path, n): only if the marker file exists
UpdateResumeInfo(d, path, n) ==
    IF d[path].marker = Absent THEN d ELSE [d EXCEPT ![path].marker = n]

KeepResumeInfo(d, path) == d

\* cleanupResumeInfo(path): unlink the marker file if it exists
CleanupResumeInfo(d, path) == [d EXCEPT ![path].marker = Absent]

\* download(): if (enableResume) { resumeInfo = getResumeInfo(destination);
\* if (resumeInfo && existsSync(destination)) startByte = statSync(..).size }
StartByte(d, path, enableResume) ==
    IF /\ enableResume
       /\ GetResumeInfo(d, path) # Absent
       /\ d[path].size # Absent
    THEN d[path].size ELSE 0

\* fs.createWriteStream(destination, {flags}): 'w' creates or truncates, 'a'
\* creates or keeps
Flags(startByte) == IF startByte > 0 THEN "a" ELSE "w"

OpenForWrite(d, path, flags) ==
    IF flags = "w" \/ d[path].size = Absent
    THEN [d EXCEPT ![path].size = 0] ELSE d

\* totalSize = startByte > 0 ? startByte + contentLength : contentLength
\* (0 when the response carries no content-length)
TotalSize(startByte, contentLength) ==
    IF contentLength = 0 THEN 0
    ELSE IF startByte > 0 THEN startByte + contentLength ELSE contentLength

NoEnv ==
    [enableResume |-> FALSE, duplicateHandling |-> "rename", resourceSize |-> 0,
     sendsLength |-> FALSE, honoursRange |-> FALSE, size0 |-> Absent,
     marker0 |-> Absent]

NoCall ==
    [phase |-> "idle", dest |-> "none", startByte |-> 0, attempt |-> 0,
     reqFrom |-> Absent, flags |-> "none", downloaded |-> 0, remaining |-> 0,
     sizeAtEntry |-> Absent, markerAtEntry |-> Absent, markerFailed |-> FALSE,
     finished |-> FALSE, error |-> "none"]

(***************************************************************************)
(* ProgressDisplay.  An id is <<transfer, 0>> for the downloadId of a      *)
(* transfer and <<transfer, f>> for `${downloadId}_file_${f-1}`.           *)
(***************************************************************************)
Xfers == {"a", "b"}

Ids == Xfers \X (0..MaxFiles)

NoEntry == [present |-> FALSE, totalSize |-> 0, downloaded |-> 0, shown |-> Absent]

NoTracker ==
    [downloads |-> [id \in Ids |-> NoEntry], startTimes |-> {}, lastUpdate |-> {},
     isProgressActive |-> FALSE]

Present(tr, id) == tr.downloads[id].present

\* startDownload(id, filename, totalSize)
StartDownloadOp(tr, id, total) ==
    [downloads |-> [tr.downloads EXCEPT ![id] =
                       [present |-> TRUE, totalSize |-> total, downloaded |-> 0,
                        shown |-> Absent]],
     startTimes |-> tr.startTimes \cup {id},
     lastUpdate |-> tr.lastUpdate \cup {id},
     isProgressActive |-> TRUE]

UpdateProgressRecreates(tr, id, n, total, due) ==
    IF ~Present(tr, id)
    THEN [tr EXCEPT !.downloads[id] = [present |-> TRUE, totalSize |-> total,
                                       downloaded |-> n, shown |-> Absent],
                    !.lastUpdate = @ \cup {id}]
    ELSE [tr EXCEPT !.downloads[id].totalSize = total,
                    !.downloads[id].downloaded = n,
                    !.downloads[id].shown =
                        IF due \/ @ = Absent THEN n ELSE @]

\* updateProgress(id, downloaded, totalSize): return if there is no entry; store
\* the sizes; then render unless the last rendering is less than 1 s old (due;
\* lastDisplayUpdate starts at 0, so the first update renders)
UpdateProgressOp(tr, id, n, total, due) ==
    IF ~Present(tr, id) THEN tr
    ELSE [tr EXCEPT !.downloads[id].totalSize = total,
                    !.downloads[id].downloaded = n,
                    !.downloads[id].shown =
                        IF due \/ @ = Absent THEN n ELSE @]

CompleteKeepsStartTime(tr, id) ==
    IF ~Present(tr, id) THEN tr
    ELSE [tr EXCEPT !.downloads[id] = NoEntry,
                    !.lastUpdate = @ \ {id},
                    !.isProgressActive = FALSE]

\* completeDownload(id): return if there is no entry; delete id from the maps;
\* this.isProgressActive = false
CompleteDownloadOp(tr, id) ==
    IF ~Present(tr, id) THEN tr
    ELSE [tr EXCEPT !.downloads[id] = NoEntry,
                    !.startTimes = @ \ {id},
                    !.lastUpdate = @ \ {id},
                    !.isProgressActive = FALSE]

\* errorDownload(id, error): return if there is no entry; delete id from the
\* maps; this.isProgressActive = false
ErrorDownloadOp(tr, id) ==
    IF ~Present(tr, id) THEN tr
    ELSE [tr EXCEPT !.downloads[id] = NoEntry,
                    !.startTimes = @ \ {id},
                    !.lastUpdate = @ \ {id},
                    !.isProgressActive = FALSE]

\* const progress = totalSize > 0 ? (downloaded / totalSize) * 100 : 0, compared
\* exactly: the progress of entry e1 is at most that of entry e2
ProgressLeq(e1, e2) ==
    IF e1.totalSize <= 0 THEN TRUE
    ELSE IF e2.totalSize <= 0 THEN e1.downloaded <= 0
    ELSE e1.downloaded * e2.totalSize <= e2.downloaded * e1.totalSize

NoFeed ==
    [strategy |-> "none", phase |-> "idle", attempt |-> 0, files |-> 0,
     size |-> 0, received |-> 0, stale |-> Absent, error |-> "none"]

NoTrackerCall == [op |-> "none", id |-> <<"a", 0>>]

\* no transfer reports progress
ProgressIdle ==
    /\ tracker = NoTracker
    /\ feed = [x \in Xfers |-> NoFeed]
    /\ call = NoTrackerCall

(***************************************************************************)
(* One tracked download on the clock (milliseconds, Date.now()).           *)
(***************************************************************************)
\* updateProgress: if (now - lastDisplayUpdate < 1000) return
DisplayInterval == 1000

\* calculateSpeed: milliseconds in a second
MsPerSecond == 1000

\* performDownload: milliseconds between two updates of the resume marker
ResumeInterval == 1000

NoDisplay ==
    [now |-> 0, phase |-> "idle", attempt |-> 0, wakeAt |-> 0, present |-> FALSE,
     lastDisplayUpdate |-> Absent, rendered |-> Absent, previous |-> Absent,
     lastProgressUpdate |-> Absent, marked |-> Absent, markedBefore |-> Absent]

\* drawProgressBar has not been called
NoBar == [phase |-> "idle", downloaded |-> 0, totalSize |-> 0, colour |-> "none",
          filled |-> 0]

\* downloadFromFile has not been called
NoFile == [phase |-> "none", exists |-> FALSE, lines |-> <<>>, warned |-> <<>>,
           error |-> "none"]

\* no batch is followed to its files
NoDests == [policy |-> "rename", enableResume |-> FALSE, names |-> <<>>,
            exists |-> {}, markers |-> {}, job |-> <<>>]

\* no batch has completed
NoEmitted == [log |-> 0, notification |-> 0]

NotifiesAlways(successCount) == TRUE

\* if (successCount > 0) this.notifications.notifyAllDownloadsComplete(...)
NotifiesComplete(successCount) == successCount > 0

\* the end of downloadSequentially and downloadConcurrently: logger.info once,
\* then the notification
BatchCompleteEvents(e, rs) ==
    [log |-> e.log + 1,
     notification |-> IF NotifiesComplete(SuccessCount(rs))
                      THEN e.notification + 1 ELSE e.notification]

\* the single-file script is not running
NoLegacy == [phase |-> "none", readable |-> FALSE, entries |-> <<>>, pos |-> 0,
             outcome |-> <<>>, errorsLogged |-> 0, exitCode |-> Absent]

\* no speed sample is followed
NoSample == [phase |-> "none", now |-> 0, downloaded |-> 0,
             stored |-> [lastUpdate |-> 0, lastDownloaded |-> 0, speed |-> 0],
             before |-> [lastUpdate |-> 0, lastDownloaded |-> 0, speed |-> 0],
             ret |-> 0]

\* no attempt is followed through its redirects
NoRedir == [phase |-> "none", maxRedirects |-> 0, chain |-> 0, final |-> "ok",
            requests |-> 0, redirectCount |-> 0, error |-> "none"]

\* the components with a specification of their own are not running, but for v
IdleBut(v) ==
    /\ IF v = "display" THEN TRUE ELSE display = NoDisplay
    /\ IF v = "bar" THEN TRUE ELSE bar = NoBar
    /\ IF v = "file" THEN TRUE ELSE file = NoFile
    /\ IF v = "dests" THEN TRUE ELSE dests = NoDests
    /\ IF v = "emitted" THEN TRUE ELSE emitted = NoEmitted
    /\ IF v = "legacy" THEN TRUE ELSE legacy = NoLegacy
    /\ IF v = "sample" THEN TRUE ELSE sample = NoSample
    /\ IF v = "redir" THEN TRUE ELSE redir = NoRedir

ExtrasIdle == IdleBut("none")

\* no download is modelled in detail
PartsIdle ==
    /\ env = NoEnv
    /\ disk = NoDisk
    /\ dl = NoCall
    /\ ProgressIdle
    /\ ExtrasIdle

(***************************************************************************)
(* Initial state: a batch about to be passed to downloadMultiple.          *)
(***************************************************************************)
BatchLists == UNION {[1..n -> BatchTargets] : n \in 1..MaxUrls}
SingleLists == {<<t>> : t \in AllTargets}

\* maxRetries of the batches: one attempt, or one retry after a backoff (the
\* single-target inputs cover the deeper retry loops)
BatchRetries == {1, 2}

\* a list handed to downloadMultiple under the configuration the CLI builds (a
\* ConfigManager: sections are reached through get, not as properties)
BatchInputs ==
    /\ urls \in BatchLists
    /\ config \in [maxRetries : BatchRetries, retryDelay : {MaxDelay},
                   sections : {FALSE}, seedTime : {0}, ratioLimit : {0}]

\* one target, under every configuration; seedTime and ratioLimit (0: no
\* limit) are read by the torrent strategy only
SingleInputs ==
    /\ urls \in SingleLists
    /\ config \in [maxRetries : 1..MaxRetries, retryDelay : 1..MaxDelay,
                   sections : BOOLEAN, seedTime : 0..1, ratioLimit : 0..1]
    /\ (Dispatch(urls[1]) # "torrent" \/ ~config.sections) =>
          config.seedTime = 0 /\ config.ratioLimit = 0

\* downloadMultiple has not been called
BatchIdle ==
    /\ pc = "idle"
    /\ i = 1
    /\ task = [j \in 1..Len(urls) |-> NewTask]
    /\ results = <<>>
    /\ errors = <<>>
    /\ next = 0
    /\ executing = <<>>
    /\ raceSet = {}
    /\ settled = {}
    /\ returned = [results |-> <<>>, errors |-> <<>>,
                   stats |-> [total |-> 0, successful |-> 0, failed |-> 0,
                              totalSize |-> 0]]

Init ==
    /\ BatchInputs \/ SingleInputs
    /\ concurrent \in 1..MaxConcurrent
    /\ stopOnError \in BOOLEAN
    /\ BatchIdle
    /\ PartsIdle

(***************************************************************************)
(* Continuations that are ready to run (microtasks).                       *)
(***************************************************************************)
ConcPcs == {"exec", "race", "all"}

ContinuationReady ==
    \/ pc \in {"idle", "seqend", "exec"}
    \/ pc = "seq" /\ task[i].status \in {"unstarted"} \cup Settled
    \/ pc \in ConcPcs /\ \E j \in 1..N : task[j].status \in Settled
    \/ \E j \in Range(executing) : task[j].status \in Recorded
    \/ pc = "all" /\ AllSettled(settled, N)

QuiescentNoSleeper ==
    ~ContinuationReady /\ \A j \in 1..N : task[j].status # "sleeping"

\* the event loop takes an I/O or timer event only when no continuation is ready
Quiescent == ~ContinuationReady

(***************************************************************************)
(* downloadMultiple: entry.                                                *)
(***************************************************************************)
\* -> downloadSequentially: the for loop is entered
EnterSequential ==
    /\ pc = "idle"
    /\ UseSequential(concurrent)
    /\ pc' = "seq"
    /\ UNCHANGED <<parts, inputs, i, task, results, errors, next, executing, raceSet,
                   settled, returned>>

\* -> downloadConcurrently: urls.map(async ...) calls downloadSingle for every
\* url before executeConcurrently is entered
EnterConcurrent ==
    /\ pc = "idle"
    /\ ~UseSequential(concurrent)
    /\ \E destThrows \in [1..N -> BOOLEAN] :
          task' = [j \in 1..N |-> StartTransfer(urls[j], destThrows[j])]
    /\ pc' = "exec"
    /\ UNCHANGED <<parts, inputs, i, results, errors, next, executing, raceSet,
                   settled, returned>>

(***************************************************************************)
(* downloadSequentially.                                                   *)
(***************************************************************************)
\* loop body up to the await: downloadSingle(urls[i])
SeqIterate ==
    /\ pc = "seq"
    /\ task[i].status = "unstarted"
    /\ \E destThrows \in BOOLEAN :
          task' = [task EXCEPT ![i] = StartTransfer(urls[i], destThrows)]
    /\ UNCHANGED <<parts, inputs, pc, i, results, errors, next, executing, raceSet,
                   settled, returned>>

\* after the await: push the outcome; break or go to the next iteration
SeqRecord ==
    /\ pc = "seq"
    /\ task[i].status \in Settled
    /\ LET ok == task[i].status = "resolved"
           entry == [url |-> urls[i], success |-> ok, index |-> 0,
                     size |-> IF ok THEN StatsSize(i) ELSE 0,
                     error |-> task[i].error]
       IN  /\ results' = Append(results, entry)
           /\ errors' = IF ok THEN errors ELSE Append(errors, entry)
           /\ task' = [task EXCEPT ![i].status = IF ok THEN "success" ELSE "failure"]
           /\ IF ~ok /\ ShouldBreak(stopOnError)
              THEN pc' = "seqend" /\ i' = i
              ELSE /\ i' = i + 1
                   /\ pc' = IF i + 1 > N THEN "seqend" ELSE "seq"
    /\ UNCHANGED <<parts, inputs, next, executing, raceSet, settled, returned>>

\* after the loop: statistics and return
SeqReturn ==
    /\ pc = "seqend"
    /\ returned' = [results |-> results, errors |-> errors,
                    stats |-> Stats(results, errors)]
    /\ emitted' = BatchCompleteEvents(emitted, results)
    /\ pc' = "done"
    /\ UNCHANGED <<offEmitted, inputs, i, task, results, errors, next, executing,
                   raceSet, settled>>

(***************************************************************************)
(* downloadConcurrently and executeConcurrently.                           *)
(***************************************************************************)
\* the map callback after its await: push the outcome, return it
ConcRecord(j) ==
    /\ pc \in ConcPcs
    /\ task[j].status \in Settled
    /\ LET ok == task[j].status = "resolved"
           entry == [url |-> urls[j], success |-> ok, index |-> j,
                     size |-> IF ok THEN StatsSize(j) ELSE 0,
                     error |-> task[j].error]
       IN  /\ results' = Append(results, entry)
           /\ errors' = IF ok THEN errors ELSE Append(errors, entry)
           /\ task' = [task EXCEPT ![j].status = IF ok THEN "success" ELSE "failure"]
    /\ UNCHANGED <<parts, inputs, pc, i, next, executing, raceSet, settled, returned>>

\* one iteration of the for loop of executeConcurrently
ExecPush ==
    /\ pc = "exec"
    /\ next' = next + 1
    /\ executing' = Append(executing, next + 1)
    /\ IF MustRace(Len(executing) + 1, concurrent)
       THEN pc' = "race" /\ raceSet' = Range(executing) \cup {next + 1}
       ELSE /\ pc' = IF next + 1 = N THEN "all" ELSE "exec"
            /\ raceSet' = raceSet
    /\ UNCHANGED <<parts, inputs, i, task, results, errors, settled, returned>>

\* the then-callback of wrapper p of promise j: splice, p is fulfilled; a
\* pending Promise.race that holds p resumes the loop
WrapperSettles(j) ==
    /\ j \in Range(executing)
    /\ task[j].status \in Recorded
    /\ executing' = Splice(executing, j)
    /\ settled' = settled \cup {j}
    /\ IF pc = "race" /\ RaceResumes(raceSet, j)
       THEN pc' = (IF next = N THEN "all" ELSE "exec") /\ raceSet' = {}
       ELSE UNCHANGED <<pc, raceSet>>
    /\ UNCHANGED <<parts, inputs, i, task, results, errors, next, returned>>

\* Promise.all(results) resolves; statistics, sort, return
ConcReturn ==
    /\ pc = "all"
    /\ AllSettled(settled, N)
    /\ returned' = [results |-> SortByIndex(results), errors |-> errors,
                    stats |-> Stats(results, errors)]
    /\ emitted' = BatchCompleteEvents(emitted, results)
    /\ pc' = "done"
    /\ UNCHANGED <<offEmitted, inputs, i, task, results, errors, next, executing,
                   raceSet, settled>>

(***************************************************************************)
(* One transfer: events of the attempt in flight and of the backoff timer. *)
(***************************************************************************)
\* performDownload resolves (torrent: 'done', then handleSeeding resolves at
\* once when neither limit is set, else starts to poll)
AttemptSucceeds(j) ==
    /\ Quiescent
    /\ task[j].status = "running"
    /\ task' = [task EXCEPT ![j].status =
                               IF task[j].strategy = "torrent" /\ Seeds(config)
                               THEN "seeding" ELSE "resolved",
                            ![j].log = Append(@, "ok"),
                            ![j].result = task[j].attempt]
    /\ UNCHANGED <<parts, inputs, pc, i, results, errors, next, executing, raceSet,
                   settled, returned>>

\* performDownload rejects: the catch block of downloadWithRetry (torrent:
\* a client or torrent 'error', also while seeding, rejects the promise of
\* download)
AttemptFails(j) ==
    /\ Quiescent
    /\ \/ task[j].status = "running"
       \/ task[j].status = "seeding"
    /\ LET t == task[j]
           err == Err("transfer", t.attempt)
           last == NextLastError(t.lastError, err)
           failed == [t EXCEPT !.log = Append(@, "fail")]
       IN  task' = [task EXCEPT ![j] =
              IF t.strategy = "torrent"
              THEN [failed EXCEPT !.status = "rejected", !.error = err]
              ELSE IF SleepsAfter(t.attempt, config.maxRetries)
              THEN [failed EXCEPT !.status = "sleeping", !.lastError = last,
                       !.sleeps = Append(@, Backoff(config.retryDelay, t.attempt))]
              ELSE [failed EXCEPT !.status = "rejected", !.lastError = last,
                       !.error = last]]
    /\ UNCHANGED <<parts, inputs, pc, i, results, errors, next, executing, raceSet,
                   settled, returned>>

\* the timer of sleep(delay) fires: attempt++, performDownload is called again
SleepElapses(j) ==
    /\ Quiescent
    /\ task[j].status = "sleeping"
    /\ task' = [task EXCEPT ![j].status = "running",
                            ![j].attempt = @ + 1,
                            ![j].calls = @ + 1]
    /\ UNCHANGED <<parts, inputs, pc, i, results, errors, next, executing, raceSet,
                   settled, returned>>

\* req.on('timeout'): the socket of the attempt was idle for download.timeout;
\* the attempt rejects like any other failure
AttemptTimesOut(j) ==
    /\ task[j].strategy \in TimeoutStrategies
    /\ AttemptFails(j)

\* checkSeedingComplete: seedTime > 0 and the seeding lasted seedTime
SeedTimeElapses(j) ==
    /\ Quiescent
    /\ task[j].status = "seeding"
    /\ config.seedTime > 0
    /\ task' = [task EXCEPT ![j].status = "resolved"]
    /\ UNCHANGED <<parts, inputs, pc, i, results, errors, next, executing, raceSet,
                   settled, returned>>

\* checkSeedingComplete: ratioLimit > 0 and peers took enough uploads
RatioReached(j) ==
    /\ Quiescent
    /\ task[j].status = "seeding"
    /\ config.ratioLimit > 0
    /\ task' = [task EXCEPT ![j].status = "resolved"]
    /\ UNCHANGED <<parts, inputs, pc, i, results, errors, next, executing, raceSet,
                   settled, returned>>

Next ==
    \/ EnterSequential
    \/ EnterConcurrent
    \/ SeqIterate
    \/ SeqRecord
    \/ SeqReturn
    \/ \E j \in 1..N : ConcRecord(j)
    \/ ExecPush
    \/ \E j \in 1..N : WrapperSettles(j)
    \/ ConcReturn
    \/ \E j \in 1..N : AttemptSucceeds(j)
    \/ \E j \in 1..N : AttemptFails(j)
    \/ \E j \in 1..N : SleepElapses(j)
    \/ \E j \in 1..N : AttemptTimesOut(j)
    \/ \E j \in 1..N : SeedTimeElapses(j)
    \/ \E j \in 1..N : RatioReached(j)

Spec == Init /\ [][Next]_vars

(***************************************************************************)
(* Scheduling.  A ready continuation (microtask) always runs, and a timer  *)
(* the program has set fires once the event loop is free.  Responses,      *)
(* data, peers and errors come from the network: nothing guarantees them.  *)
(***************************************************************************)
Continuations ==
    \/ EnterSequential
    \/ EnterConcurrent
    \/ SeqIterate
    \/ SeqRecord
    \/ SeqReturn
    \/ \E j \in 1..N : ConcRecord(j)
    \/ ExecPush
    \/ \E j \in 1..N : WrapperSettles(j)
    \/ ConcReturn

Timer(j) ==
    /\ j \in 1..N
    /\ SleepElapses(j) \/ AttemptTimesOut(j) \/ SeedTimeElapses(j)

FairSpec ==
    /\ Init
    /\ [][Next]_vars
    /\ WF_vars(Continuations)
    /\ \A j \in 1..MaxUrls : WF_vars(Timer(j))

TypeOK ==
    /\ pc \in {"idle", "seq", "seqend", "exec", "race", "all", "done", "file",
              "raised"}
    /\ \A j \in 1..N : task[j].status \in {"unstarted"} \cup InFlight \cup Terminal

(***************************************************************************)
(* One HTTP download in detail: downloadSingle(url) for an HTTP target,    *)
(* with the destination, the resume marker and the bytes on disk.  The     *)
(* resource has resourceSize bytes and arrives in chunks of one byte.      *)
(***************************************************************************)
ResumeInit ==
    /\ urls = <<"http">>
    /\ concurrent = 1
    /\ stopOnError = FALSE
    /\ config \in [maxRetries : BatchRetries, retryDelay : {MaxDelay},
                   sections : {FALSE}, seedTime : {0}, ratioLimit : {0}]
    /\ BatchIdle
    /\ env \in [enableResume : BOOLEAN,
                duplicateHandling : {"rename", "skip", "overwrite"},
                resourceSize : 1..MaxSize,
                sendsLength : BOOLEAN,
                honoursRange : BOOLEAN,
                size0 : {Absent} \cup 0..MaxSize,
                marker0 : {Absent} \cup 0..MaxSize]
    /\ env.size0 <= env.resourceSize
    /\ env.marker0 <= env.resourceSize
    /\ disk = [NoDisk EXCEPT !["base"] = [size |-> env.size0,
                                         marker |-> env.marker0]]
    /\ dl = NoCall
    /\ ProgressIdle
    /\ ExtrasIdle

\* the request was sent at least once
Sent == {"requested", "receiving", "resolved", "success", "sleeping", "failure",
         "crashed"}

\* downloadSingle up to the first request: getDestinationPath, download(),
\* downloadWithRetry with attempt 1, performDownload sends the request
CallDownloadSingle ==
    /\ dl.phase = "idle"
    /\ LET dest == HandleDuplicateFile(disk, env.duplicateHandling)
           sb == StartByte(disk, dest, env.enableResume)
       IN  dl' = IF dest = "throw"
                 THEN [dl EXCEPT !.phase = "failure", !.error = "exists"]
                 ELSE [dl EXCEPT !.phase = "requested", !.dest = dest,
                          !.startByte = sb, !.attempt = 1, !.reqFrom = sb,
                          !.sizeAtEntry = disk[dest].size,
                          !.markerAtEntry = disk[dest].marker]
    /\ UNCHANGED <<batch, progress, extras, env, disk>>

\* the body of a 2xx response: the rest from the Range offset if the server
\* honours Range, else the whole resource
BodyLength(from) ==
    IF from > 0 /\ env.honoursRange
    THEN env.resourceSize - from ELSE env.resourceSize

\* the response callback, status 2xx: totalSize, createResumeInfo (outside any
\* try: its throw is an uncaught exception), startDownload, createWriteStream
Response(createFails) ==
    /\ dl.phase = "requested"
    /\ BodyLength(dl.reqFrom) > 0
    /\ LET body == BodyLength(dl.reqFrom)
           total == TotalSize(dl.startByte, IF env.sendsLength THEN body ELSE 0)
           creates == env.enableResume /\ total > 0
       IN  IF creates /\ createFails
           THEN /\ dl' = [dl EXCEPT !.phase = "crashed", !.markerFailed = TRUE,
                             !.error = "uncaught"]
                /\ disk' = disk
           ELSE /\ disk' = OpenForWrite(
                              IF creates THEN CreateResumeInfo(disk, dl.dest)
                              ELSE disk,
                              dl.dest, Flags(dl.startByte))
                /\ dl' = [dl EXCEPT !.phase = "receiving",
                             !.flags = Flags(dl.startByte),
                             !.downloaded = dl.startByte,
                             !.remaining = body]
    /\ UNCHANGED <<batch, progress, extras, env>>

\* res.on('data'): downloaded += chunk.length, the chunk is piped to the file;
\* if a second has passed since the last update, updateResumeInfo (which
\* swallows a write error)
Data(elapsed, updateFails) ==
    /\ dl.phase = "receiving"
    /\ dl.remaining > 0
    /\ LET n == dl.downloaded + 1
           written == [disk EXCEPT ![dl.dest].size = @ + 1]
           updates == elapsed /\ env.enableResume
       IN  /\ disk' = IF updates /\ ~updateFails
                      THEN UpdateResumeInfo(written, dl.dest, n) ELSE written
           /\ dl' = [dl EXCEPT !.downloaded = n, !.remaining = @ - 1,
                       !.markerFailed = @ \/ (updates /\ updateFails)]
    /\ UNCHANGED <<batch, progress, extras, env>>

\* writeStream.on('finish'): performDownload resolves
Finish ==
    /\ dl.phase = "receiving"
    /\ dl.remaining = 0
    /\ dl' = [dl EXCEPT !.phase = "resolved", !.finished = TRUE]
    /\ UNCHANGED <<batch, progress, extras, env, disk>>

\* download() after the await: cleanupResumeInfo, completeDownload, return
AfterSuccess ==
    /\ dl.phase = "resolved"
    /\ disk' = CleanupResumeInfo(disk, dl.dest)
    /\ dl' = [dl EXCEPT !.phase = "success"]
    /\ UNCHANGED <<batch, progress, extras, env>>

\* performDownload rejects (request error, timeout, status not 2xx, write
\* error): the catch block of downloadWithRetry, then that of download()
AttemptRejects ==
    /\ dl.phase \in {"requested", "receiving"}
    /\ dl' = IF SleepsAfter(dl.attempt, config.maxRetries)
             THEN [dl EXCEPT !.phase = "sleeping"]
             ELSE [dl EXCEPT !.phase = "failure", !.error = "transfer"]
    /\ UNCHANGED <<batch, progress, extras, env, disk>>

\* the backoff timer fires: performDownload is called again with the startByte
\* download() computed
RetryAfterSleep ==
    /\ dl.phase = "sleeping"
    /\ dl' = [dl EXCEPT !.phase = "requested", !.attempt = @ + 1,
                !.reqFrom = dl.startByte]
    /\ UNCHANGED <<batch, progress, extras, env, disk>>

ResumeNext ==
    \/ CallDownloadSingle
    \/ \E createFails \in BOOLEAN : Response(createFails)
    \/ \E elapsed, updateFails \in BOOLEAN : Data(elapsed, updateFails)
    \/ Finish
    \/ AfterSuccess
    \/ AttemptRejects
    \/ RetryAfterSleep

ResumeSpec == ResumeInit /\ [][ResumeNext]_vars

(***************************************************************************)
(* The same HTTP download with a logger whose calls can throw.  Logger's   *)
(* methods hand the call to winston without a try block.                   *)
(***************************************************************************)
\* download(): logDownloadStart is the first statement of the try block; the
\* catch block calls logDownloadError, which throws again
StartLogThrows ==
    /\ dl.phase = "idle"
    /\ HandleDuplicateFile(disk, env.duplicateHandling) # "throw"
    /\ dl' = [dl EXCEPT !.phase = "failure", !.error = "logger"]
    /\ UNCHANGED <<batch, progress, extras, env, disk>>

\* downloadWithRetry's catch block: logger.warn (or logger.error after the
\* last attempt) throws out of the loop, and download() rejects without retry
RetryLogThrows ==
    /\ dl.phase \in {"requested", "receiving"}
    /\ dl' = [dl EXCEPT !.phase = "failure", !.error = "logger"]
    /\ UNCHANGED <<batch, progress, extras, env, disk>>

\* download() after the await: cleanupResumeInfo, completeDownload, then
\* logDownloadComplete throws inside the try block: the catch block rethrows
CompleteLogThrows ==
    /\ dl.phase = "resolved"
    /\ disk' = CleanupResumeInfo(disk, dl.dest)
    /\ dl' = [dl EXCEPT !.phase = "failure", !.error = "logger"]
    /\ UNCHANGED <<batch, progress, extras, env>>

LoggerNext ==
    \/ ResumeNext
    \/ StartLogThrows
    \/ RetryLogThrows
    \/ CompleteLogThrows

LoggerSpec == ResumeInit /\ [][LoggerNext]_vars

(***************************************************************************)
(* Two transfers and the ProgressDisplay they share: transfer "a" of any   *)
(* strategy, and an HTTP transfer "b" beside it.  A transfer of the HTTP,  *)
(* FTP, SFTP or video strategy has MaxSize bytes; a torrent has files of   *)
(* one byte each, which complete in order.  Bytes arrive one per chunk.    *)
(***************************************************************************)
ProgressStrategies == {"http", "ftp", "sftp", "youtube", "torrent"}

\* strategies that call updateProgress only when progress.updateInterval has
\* passed since their last call
ThrottledStrategies == {"ftp", "sftp", "youtube", "torrent"}

ProgressInit ==
    /\ urls = <<"http">>
    /\ concurrent = 1
    /\ stopOnError = FALSE
    /\ config \in [maxRetries : BatchRetries, retryDelay : {MaxDelay},
                   sections : BOOLEAN, seedTime : {0}, ratioLimit : {0}]
    /\ BatchIdle
    /\ ExtrasIdle
    /\ env = NoEnv
    /\ disk = NoDisk
    /\ dl = NoCall
    /\ tracker = NoTracker
    /\ call = NoTrackerCall
    /\ feed \in [Xfers -> [strategy : ProgressStrategies, phase : {"idle"},
                           attempt : {0}, files : 1..MaxFiles,
                           size : 1..MaxSize, received : {0},
                           stale : {Absent}, error : {"none"}]]
    /\ feed["b"].strategy = "http"
    /\ \A x \in Xfers :
          IF feed[x].strategy = "torrent"
          THEN feed[x].size = feed[x].files
          ELSE feed[x].size = MaxSize /\ feed[x].files = 1

Agg(x) == <<x, 0>>

\* handleMultipleFiles: one entry per file, only if torrent.files.length > 1
FileIds(x) ==
    IF feed[x].strategy = "torrent" /\ feed[x].files > 1
    THEN {<<x, f>> : f \in 1..feed[x].files} ELSE {}

RECURSIVE StartFiles(_, _, _)
StartFiles(tr, x, k) ==
    IF k = 0 THEN tr ELSE StartDownloadOp(StartFiles(tr, x, k - 1), <<x, k>>, 1)

\* file.downloaded of file f
FileDownloaded(x, f) == IF feed[x].received >= f THEN 1 ELSE 0

Ended == {"success", "failure"}

\* download() is called: up to the first request, connection or client.add
TransferStarts(x) ==
    /\ feed[x].phase = "idle"
    /\ IF feed[x].strategy \in SectionStrategies /\ ~config.sections
       THEN /\ feed' = [feed EXCEPT ![x].phase = "failure",
                                    ![x].error = "typeerror"]
            /\ IF feed[x].strategy = "torrent"
               THEN call' = call
               ELSE call' = [op |-> "error", id |-> Agg(x)]
            /\ tracker' = ErrorDownloadOp(tracker, Agg(x))
       ELSE /\ feed' = [feed EXCEPT ![x].phase = "connecting", ![x].attempt = 1]
            /\ UNCHANGED <<tracker, call>>
    /\ UNCHANGED <<batch, extras, env, disk, dl>>

\* the response, the size of the remote file or the torrent's metadata is
\* there: startDownload (handleTorrent: handleMultipleFiles too)
TransferEstablished(x) ==
    /\ feed[x].phase = "connecting"
    /\ feed' = [feed EXCEPT ![x].phase = "receiving", ![x].received = 0]
    /\ LET started == StartDownloadOp(tracker, Agg(x), feed[x].size)
       IN  IF FileIds(x) = {}
           THEN /\ tracker' = started
                /\ call' = [op |-> "start", id |-> Agg(x)]
           ELSE /\ tracker' = StartFiles(started, x, feed[x].files)
                /\ call' = [op |-> "start", id |-> <<x, feed[x].files>>]
    /\ UNCHANGED <<batch, extras, env, disk, dl>>

\* a chunk: the strategy counts it; HTTP calls updateProgress for every chunk,
\* the other strategies only if their interval has passed (elapsed)
ChunkArrives(x, elapsed, due) ==
    /\ feed[x].phase = "receiving"
    /\ feed[x].received < feed[x].size
    /\ feed' = [feed EXCEPT ![x].received = @ + 1]
    /\ IF feed[x].strategy \notin ThrottledStrategies \/ elapsed
       THEN /\ tracker' = UpdateProgressOp(tracker, Agg(x), feed[x].received + 1,
                                           feed[x].size, due)
            /\ call' = [op |-> "update", id |-> Agg(x)]
       ELSE UNCHANGED <<tracker, call>>
    /\ UNCHANGED <<batch, extras, env, disk, dl>>

\* checkFileProgress of file f (a timer, re-armed while the file is
\* incomplete; it returns at once when the torrent is destroyed)
CheckFileProgress(x, f) ==
    /\ feed[x].phase = "receiving"
    /\ <<x, f>> \in FileIds(x)
    /\ Present(tracker, <<x, f>>)
    /\ \E due \in BOOLEAN :
          LET updated == UpdateProgressOp(tracker, <<x, f>>, FileDownloaded(x, f),
                                          1, due)
          IN  IF FileDownloaded(x, f) >= 1
              THEN /\ tracker' = CompleteDownloadOp(updated, <<x, f>>)
                   /\ call' = [op |-> "complete", id |-> <<x, f>>]
              ELSE /\ tracker' = updated
                   /\ call' = [op |-> "update", id |-> <<x, f>>]
    /\ UNCHANGED <<batch, extras, env, disk, dl, feed>>

\* the last byte is written: performDownload resolves and download() goes on
\* with completeDownload (torrent: 'done', completeDownload, handleSeeding
\* with no limit set destroys the client and resolves)
TransferCompletes(x) ==
    /\ feed[x].phase = "receiving"
    /\ feed[x].received = feed[x].size
    /\ feed' = [feed EXCEPT ![x].phase = "success"]
    /\ tracker' = CompleteDownloadOp(tracker, Agg(x))
    /\ call' = [op |-> "complete", id |-> Agg(x)]
    /\ UNCHANGED <<batch, extras, env, disk, dl>>

\* writeStream.on('error') of the HTTP strategy rejects and nothing more: the
\* response is not destroyed and its data handler stays (flowing: the
\* response of the rejected attempt goes on with its own count of bytes);
\* req.on('timeout') destroys the request, req.on('error') has lost it
ResponseAfter(f, flowing) ==
    IF f.strategy = "http" /\ f.phase = "receiving" /\ flowing
    THEN f.received ELSE f.stale

\* an attempt of a strategy with downloadWithRetry rejects: sleep, or the catch
\* block of download() calls errorDownload and rethrows
TransferAttemptFails(x, flowing) ==
    /\ feed[x].phase \in {"connecting", "receiving"}
    /\ feed[x].strategy \in RetryStrategies
    /\ LET stale == ResponseAfter(feed[x], flowing)
       IN  IF SleepsAfter(feed[x].attempt, config.maxRetries)
           THEN /\ feed' = [feed EXCEPT ![x].phase = "sleeping",
                                        ![x].stale = stale]
                /\ UNCHANGED <<tracker, call>>
           ELSE /\ feed' = [feed EXCEPT ![x].phase = "failure",
                                        ![x].error = "transfer",
                                        ![x].stale = stale]
                /\ tracker' = ErrorDownloadOp(tracker, Agg(x))
                /\ call' = [op |-> "error", id |-> Agg(x)]
    /\ UNCHANGED <<batch, extras, env, disk, dl>>

\* res.on('data') of a rejected attempt whose response still delivers:
\* downloaded += chunk.length; updateProgress(downloadId, downloaded, totalSize)
LateChunk(x, due) ==
    /\ feed[x].stale # Absent
    /\ feed[x].stale < feed[x].size
    /\ feed' = [feed EXCEPT ![x].stale = @ + 1]
    /\ tracker' = UpdateProgressOp(tracker, Agg(x), feed[x].stale + 1,
                                   feed[x].size, due)
    /\ call' = [op |-> "update", id |-> Agg(x)]
    /\ UNCHANGED <<batch, extras, env, disk, dl>>

\* the backoff timer fires: performDownload is called again
TransferRetries(x) ==
    /\ feed[x].phase = "sleeping"
    /\ feed' = [feed EXCEPT ![x].phase = "connecting", ![x].attempt = @ + 1]
    /\ UNCHANGED <<batch, extras, env, disk, dl, tracker, call>>

\* torrent.on('error'): errorDownload, cleanup, reject
TorrentError(x) ==
    /\ feed[x].strategy = "torrent"
    /\ feed[x].phase = "receiving"
    /\ feed' = [feed EXCEPT ![x].phase = "failure", ![x].error = "torrent"]
    /\ tracker' = ErrorDownloadOp(tracker, Agg(x))
    /\ call' = [op |-> "error", id |-> Agg(x)]
    /\ UNCHANGED <<batch, extras, env, disk, dl>>

\* client.on('error'): log, cleanup, reject
ClientError(x) ==
    /\ feed[x].strategy = "torrent"
    /\ feed[x].phase \in {"connecting", "receiving"}
    /\ feed' = [feed EXCEPT ![x].phase = "failure", ![x].error = "client"]
    /\ UNCHANGED <<batch, extras, env, disk, dl, tracker, call>>

ProgressNext ==
    \/ \E x \in Xfers : TransferStarts(x)
    \/ \E x \in Xfers : TransferEstablished(x)
    \/ \E x \in Xfers : \E elapsed, due \in BOOLEAN : ChunkArrives(x, elapsed, due)
    \/ \E x \in Xfers : \E f \in 1..MaxFiles : CheckFileProgress(x, f)
    \/ \E x \in Xfers : TransferCompletes(x)
    \/ \E x \in Xfers : \E flowing \in BOOLEAN : TransferAttemptFails(x, flowing)
    \/ \E x \in Xfers : \E due \in BOOLEAN : LateChunk(x, due)
    \/ \E x \in Xfers : TransferRetries(x)
    \/ \E x \in Xfers : TorrentError(x)
    \/ \E x \in Xfers : ClientError(x)

ProgressSpec == ProgressInit /\ [][ProgressNext]_vars

(***************************************************************************)
(* The progress line of one HTTP download on the clock: startDownload at   *)
(* every response, updateProgress at every chunk, a backoff sleep between  *)
(* attempts.  The clock starts at DisplayInterval (Date.now() is far from  *)
(* 0) and the run is followed up to MaxClock display intervals.            *)
(***************************************************************************)
MaxClock == 3

ClockEnd == MaxClock * DisplayInterval

\* time an event takes to arrive: a tenth of the display interval, or all of it
Elapses == {DisplayInterval \div 10, DisplayInterval}

\* download.retryDelay, which validateConfig leaves as configured
RetryDelays == {DisplayInterval \div 2, DisplayInterval}

DisplayInit ==
    /\ urls = <<"http">>
    /\ concurrent = 1
    /\ stopOnError = FALSE
    /\ config \in [maxRetries : BatchRetries, retryDelay : RetryDelays,
                   sections : {FALSE}, seedTime : {0}, ratioLimit : {0}]
    /\ BatchIdle
    /\ env = NoEnv
    /\ disk = NoDisk
    /\ dl = NoCall
    /\ ProgressIdle
    /\ IdleBut("display")
    /\ display = [NoDisplay EXCEPT !.now = DisplayInterval]

\* const lastDisplayUpdate = downloadInfo.lastDisplayUpdate || 0
LastDisplayUpdate(d) ==
    IF d.lastDisplayUpdate = Absent THEN 0 ELSE d.lastDisplayUpdate

\* updateProgress goes on to write the line unless the last one is too recent
Renders(d, t) == ~(t - LastDisplayUpdate(d) < DisplayInterval)

\* download() is called: the first request is sent
DisplayCall ==
    /\ display.phase = "idle"
    /\ display' = [display EXCEPT !.phase = "requested", !.attempt = 1]
    /\ UNCHANGED offDisplay

\* a write of the resume marker at time t (resume enabled, size announced)
MarkerWritten(d, t) == [d EXCEPT !.markedBefore = d.marked, !.marked = t]

\* if (now - lastProgressUpdate >= 1000)
MarkerDue(d, t) == t - d.lastProgressUpdate >= ResumeInterval

\* the response callback, status 2xx: createResumeInfo writes the marker,
\* startDownload sets a new entry, which has no lastDisplayUpdate, and
\* lastProgressUpdate starts at the present time
DisplayResponse(el) ==
    /\ display.phase = "requested"
    /\ display.now + el <= ClockEnd
    /\ LET t == display.now + el
       IN  display' = [MarkerWritten(display, t) EXCEPT
                          !.phase = "receiving", !.now = t, !.present = TRUE,
                          !.lastDisplayUpdate = Absent,
                          !.lastProgressUpdate = t]
    /\ UNCHANGED offDisplay

\* res.on('data'): updateProgress, then updateResumeInfo if a second has
\* passed since lastProgressUpdate
DisplayChunk(el) ==
    /\ display.phase = "receiving"
    /\ display.now + el <= ClockEnd
    /\ LET t == display.now + el
           shown == IF display.present /\ Renders(display, t)
                    THEN [display EXCEPT !.now = t, !.lastDisplayUpdate = t,
                                         !.previous = display.rendered,
                                         !.rendered = t]
                    ELSE [display EXCEPT !.now = t]
       IN  display' = IF MarkerDue(display, t)
                      THEN [MarkerWritten(shown, t) EXCEPT
                               !.lastProgressUpdate = t]
                      ELSE shown
    /\ UNCHANGED offDisplay

\* performDownload resolves: completeDownload deletes the entry
DisplayCompletes ==
    /\ display.phase = "receiving"
    /\ display' = [display EXCEPT !.phase = "success", !.present = FALSE,
                                  !.lastDisplayUpdate = Absent]
    /\ UNCHANGED offDisplay

\* performDownload rejects: downloadWithRetry sleeps Backoff ms, or download()
\* calls errorDownload, which deletes the entry
DisplayRejects(el) ==
    /\ display.phase \in {"requested", "receiving"}
    /\ display.now + el <= ClockEnd
    /\ LET t == display.now + el
       IN  display' = IF SleepsAfter(display.attempt, config.maxRetries)
                      THEN [display EXCEPT
                               !.phase = "sleeping", !.now = t,
                               !.wakeAt = t + Backoff(config.retryDelay,
                                                      display.attempt)]
                      ELSE [display EXCEPT !.phase = "failure", !.now = t,
                                           !.present = FALSE,
                                           !.lastDisplayUpdate = Absent]
    /\ UNCHANGED offDisplay

\* the backoff timer fires, no earlier than set: the next request is sent
DisplayWakes ==
    /\ display.phase = "sleeping"
    /\ display.wakeAt <= ClockEnd
    /\ display' = [display EXCEPT !.phase = "requested", !.attempt = @ + 1,
                                  !.now = display.wakeAt]
    /\ UNCHANGED offDisplay

DisplayNext ==
    \/ DisplayCall
    \/ \E el \in Elapses : DisplayResponse(el)
    \/ \E el \in Elapses : DisplayChunk(el)
    \/ DisplayCompletes
    \/ \E el \in Elapses : DisplayRejects(el)
    \/ DisplayWakes

DisplaySpec == DisplayInit /\ [][DisplayNext]_vars

(***************************************************************************)
(* drawProgressBar as updateProgress calls it: the progress is             *)
(* downloaded / totalSize * 100 (0 when totalSize is 0), the bar is 20     *)
(* cells wide.  The comparisons are made on the exact quotient; for the    *)
(* sizes up to MaxTotal the floating-point quotient gives the same band.   *)
(***************************************************************************)
MaxTotal == 101
MaxRedirects == 3

\* display += this.drawProgressBar(progress, 20)
BarWidth == 20

\* if (progress >= 0 && progress <= 49) red; else if (progress >= 50 &&
\* progress <= 99) yellow; else green
Colour(downloaded, totalSize) ==
    IF totalSize <= 0 THEN "red"
    ELSE IF 0 <= downloaded /\ 100 * downloaded <= 49 * totalSize THEN "red"
    ELSE IF 50 * totalSize <= 100 * downloaded
            /\ 100 * downloaded <= 99 * totalSize THEN "yellow"
    ELSE "green"

\* const filledWidth = Math.floor(progress / 100 * width)
FilledWidth(downloaded, totalSize, width) ==
    IF totalSize <= 0 THEN 0 ELSE (downloaded * width) \div totalSize

\* an entry of the tracker about to be rendered
BarInit ==
    /\ urls = <<"http">>
    /\ concurrent = 1
    /\ stopOnError = FALSE
    /\ config = [maxRetries |-> 1, retryDelay |-> MaxDelay, sections |-> FALSE,
                 seedTime |-> 0, ratioLimit |-> 0]
    /\ BatchIdle
    /\ env = NoEnv
    /\ disk = NoDisk
    /\ dl = NoCall
    /\ ProgressIdle
    /\ IdleBut("bar")
    /\ bar \in [phase : {"entry"}, downloaded : 0..MaxTotal,
                totalSize : 0..MaxTotal, colour : {"none"}, filled : {0}]

\* updateProgress past its throttle: the line is built
DrawProgressBar ==
    /\ bar.phase = "entry"
    /\ bar' = [bar EXCEPT
                  !.phase = "drawn",
                  !.colour = Colour(bar.downloaded, bar.totalSize),
                  !.filled = FilledWidth(bar.downloaded, bar.totalSize, BarWidth)]
    /\ UNCHANGED offBar

BarNext == DrawProgressBar

BarSpec == BarInit /\ [][BarNext]_vars

(***************************************************************************)
(* downloadFromFile: the list file, its parser, and the batch it starts.   *)
(* A line is a sequence of characters: "sp" (white space), "dq" and "sq"   *)
(* (the quotes), "#", "/", and one character per target, which stands for  *)
(* the text of that target.                                                *)
(***************************************************************************)
Quotes == {"dq", "sq"}

\* the lines a list file is made of
Lines ==
    {<<"http">>,
     <<"sp", "dq", "magnet", "dq", "sp">>,
     <<"ftp">>,
     <<"sq", "text", "sq">>,
     <<"#", "http">>,
     <<"/", "/", "http">>,
     <<"sp">>}

\* String.prototype.trim
RECURSIVE TrimStart(_)
TrimStart(l) ==
    IF l # <<>> /\ Head(l) = "sp" THEN TrimStart(Tail(l)) ELSE l

RECURSIVE TrimEnd(_)
TrimEnd(l) ==
    IF l # <<>> /\ l[Len(l)] = "sp" THEN TrimEnd(SubSeq(l, 1, Len(l) - 1)) ELSE l

Trim(l) == TrimEnd(TrimStart(l))

\* line.startsWith('#') || line.startsWith('//')
IsComment(l) ==
    \/ Len(l) >= 1 /\ l[1] = "#"
    \/ Len(l) >= 2 /\ l[1] = "/" /\ l[2] = "/"

\* line.replace(/^["']|["']$/g, ''): one quote at the start and one at the end
StripQuotes(l) ==
    LET a == IF l # <<>> /\ Head(l) \in Quotes THEN Tail(l) ELSE l
    IN  IF a # <<>> /\ a[Len(a)] \in Quotes THEN SubSeq(a, 1, Len(a) - 1) ELSE a

\* HttpDownloader.isValidUrl(line) || TorrentDownloader.isValidMagnetUri(line):
\* of the texts a line of Lines can leave, only the text of a target is a URL
LineAccepted(l) ==
    /\ Len(l) = 1
    /\ l[1] \in AllTargets
    /\ isValidUrl(UrlOf(l[1])) \/ isValidMagnetUri(UrlOf(l[1]))

ParseLineUntrimmed(acc, raw, k) ==
    LET line == raw
        stripped == StripQuotes(line)
    IN  IF line = <<>> \/ IsComment(line) THEN acc
        ELSE IF LineAccepted(stripped)
        THEN [acc EXCEPT !.urls = Append(@, stripped[1])]
        ELSE [acc EXCEPT !.warned = Append(@, k)]

\* parseUrlsFromContent: the body of the for loop for line k, acc = [urls,
\* warned]
ParseLine(acc, raw, k) ==
    LET line == Trim(raw)
        stripped == StripQuotes(line)
    IN  IF line = <<>> \/ IsComment(line) THEN acc
        ELSE IF LineAccepted(stripped)
        THEN [acc EXCEPT !.urls = Append(@, stripped[1])]
        ELSE [acc EXCEPT !.warned = Append(@, k)]

\* the for loop from line k on
RECURSIVE ParseFrom(_, _, _)
ParseFrom(lines, k, acc) ==
    IF k > Len(lines) THEN acc
    ELSE ParseFrom(lines, k + 1, ParseLine(acc, lines[k], k))

ParseUrlsFromContent(lines) == ParseFrom(lines, 1, [urls |-> <<>>, warned |-> <<>>])

\* the CLI hands a .txt argument to downloadFromFile with the concurrency of
\* its -c option (parseInt, not validated) under a ConfigManager, here without
\* --stop-on-error
ListInit ==
    /\ urls = <<>>
    /\ concurrent \in {0, 1, MaxConcurrent}
    /\ stopOnError = FALSE
    /\ config = [maxRetries |-> 1, retryDelay |-> MaxDelay, sections |-> FALSE,
                 seedTime |-> 0, ratioLimit |-> 0]
    /\ pc = "file"
    /\ i = 1
    /\ task = <<>>
    /\ results = <<>>
    /\ errors = <<>>
    /\ next = 0
    /\ executing = <<>>
    /\ raceSet = {}
    /\ settled = {}
    /\ returned = [results |-> <<>>, errors |-> <<>>,
                   stats |-> [total |-> 0, successful |-> 0, failed |-> 0,
                              totalSize |-> 0]]
    /\ env = NoEnv
    /\ disk = NoDisk
    /\ dl = NoCall
    /\ ProgressIdle
    /\ IdleBut("file")
    /\ file \in [phase : {"unread"}, exists : BOOLEAN,
                 lines : UNION {[1..n -> Lines] : n \in 0..MaxUrls},
                 warned : {<<>>}, error : {"none"}]
    /\ ~file.exists => file.lines = <<>>

\* downloadFromFile up to its call of downloadMultiple
DownloadFromFile ==
    /\ pc = "file"
    /\ LET parsed == ParseUrlsFromContent(file.lines)
       IN  IF ~file.exists
           THEN /\ file' = [file EXCEPT !.phase = "raised", !.error = "notfound"]
                /\ pc' = "raised"
                /\ UNCHANGED <<urls, task>>
           ELSE IF Len(parsed.urls) = 0
           THEN /\ file' = [file EXCEPT !.phase = "raised", !.error = "nourls",
                                        !.warned = parsed.warned]
                /\ pc' = "raised"
                /\ UNCHANGED <<urls, task>>
           ELSE /\ file' = [file EXCEPT !.phase = "parsed",
                                        !.warned = parsed.warned]
                /\ urls' = parsed.urls
                /\ task' = [j \in 1..Len(parsed.urls) |-> NewTask]
                /\ pc' = "idle"
    /\ UNCHANGED <<concurrent, stopOnError, config, i, results, errors, next,
                   executing, raceSet, settled, returned, env, disk, dl, progress,
                   display, bar, dests, emitted, legacy, sample, redir>>

\* with maxRetries 1 and no configuration sections no timer is ever set
ListNext ==
    \/ DownloadFromFile
    \/ EnterSequential
    \/ EnterConcurrent
    \/ SeqIterate
    \/ SeqRecord
    \/ SeqReturn
    \/ \E j \in 1..N : ConcRecord(j)
    \/ ExecPush
    \/ \E j \in 1..N : WrapperSettles(j)
    \/ ConcReturn
    \/ \E j \in 1..N : AttemptSucceeds(j)
    \/ \E j \in 1..N : AttemptFails(j)

ListSpec == ListInit /\ [][ListNext]_vars

(***************************************************************************)
(* Two HTTP downloads of one batch and the files of the download           *)
(* directory.  A path is <<name, 0>> for the file name extractFilename     *)
(* takes from the url and <<name, k>> for `name (k)`.                      *)
(***************************************************************************)
Jobs == 1..2

FileNames == {"f", "g"}

\* generateUniqueFilename: while (fs.existsSync(newPath)) try the next counter
RECURSIVE GenerateUniqueFilename(_, _, _)
GenerateUniqueFilename(exists, name, counter) ==
    IF <<name, counter>> \in exists
    THEN GenerateUniqueFilename(exists, name, counter + 1)
    ELSE <<name, counter>>

\* getDestinationPath(url, dir): handleDuplicateFile of the url's file name;
\* <<name, -1>> stands for its throw
GetDestinationPath(exists, name, policy) ==
    IF <<name, 0>> \notin exists THEN <<name, 0>>
    ELSE CASE policy = "skip" -> <<name, Absent>>
           [] policy = "overwrite" -> <<name, 0>>
           [] OTHER -> GenerateUniqueFilename(exists, name, 0)

\* downloadSingle up to the request: the destination is fixed
StartJob(exists, name, policy) ==
    LET path == GetDestinationPath(exists, name, policy)
    IN  IF path[2] = Absent
        THEN [phase |-> "failed", path |-> path]
        ELSE [phase |-> "requested", path |-> path]

DestsInit ==
    /\ urls = <<"http", "http">>
    /\ concurrent \in 1..MaxConcurrent
    /\ stopOnError = FALSE
    /\ config = [maxRetries |-> 1, retryDelay |-> MaxDelay, sections |-> FALSE,
                 seedTime |-> 0, ratioLimit |-> 0]
    /\ BatchIdle
    /\ env = NoEnv
    /\ disk = NoDisk
    /\ dl = NoCall
    /\ ProgressIdle
    /\ IdleBut("dests")
    /\ dests \in [policy : {"rename", "skip", "overwrite"},
                  enableResume : BOOLEAN,
                  names : [Jobs -> FileNames],
                  exists : SUBSET {<<"f", 0>>, <<"f", 1>>},
                  markers : {{}},
                  job : {[j \in Jobs |-> [phase |-> "unstarted",
                                          path |-> <<"f", Absent>>]]}]
    /\ dests.names[1] = "f"

JobInFlight == {"requested", "writing"}

JobEnded == {"done", "failed"}

\* downloadConcurrently: urls.map calls downloadSingle for every url before
\* any response can arrive
DestsEnterConcurrent ==
    /\ ~UseSequential(concurrent)
    /\ \A j \in Jobs : dests.job[j].phase = "unstarted"
    /\ dests' = [dests EXCEPT
                    !.job = [j \in Jobs |->
                                StartJob(dests.exists, dests.names[j],
                                         dests.policy)]]
    /\ UNCHANGED offDests

\* downloadSequentially: downloadSingle of the next url once the one before it
\* has ended
DestsSeqIterate(j) ==
    /\ UseSequential(concurrent)
    /\ dests.job[j].phase = "unstarted"
    /\ \A k \in 1..(j - 1) : dests.job[k].phase \in JobEnded
    /\ dests' = [dests EXCEPT
                    !.job[j] = StartJob(dests.exists, dests.names[j],
                                        dests.policy)]
    /\ UNCHANGED offDests

\* the response callback: createResumeInfo, createWriteStream
DestsResponse(j) ==
    /\ dests.job[j].phase = "requested"
    /\ dests' = [dests EXCEPT
                    !.job[j].phase = "writing",
                    !.exists = @ \cup {dests.job[j].path},
                    !.markers = IF dests.enableResume
                                THEN @ \cup {dests.job[j].path} ELSE @]
    /\ UNCHANGED offDests

\* the file is written: cleanupResumeInfo
DestsFinish(j) ==
    /\ dests.job[j].phase = "writing"
    /\ dests' = [dests EXCEPT !.job[j].phase = "done",
                              !.markers = @ \ {dests.job[j].path}]
    /\ UNCHANGED offDests

\* the only attempt rejects
DestsReject(j) ==
    /\ dests.job[j].phase \in JobInFlight
    /\ dests' = [dests EXCEPT !.job[j].phase = "failed"]
    /\ UNCHANGED offDests

DestsNext ==
    \/ DestsEnterConcurrent
    \/ \E j \in Jobs : DestsSeqIterate(j)
    \/ \E j \in Jobs : DestsResponse(j)
    \/ \E j \in Jobs : DestsFinish(j)
    \/ \E j \in Jobs : DestsReject(j)

DestsSpec == DestsInit /\ [][DestsNext]_vars

(***************************************************************************)
(* The single-file script jsdownloader.js called with a .txt argument:     *)
(* downloadFromTxtFile.  An entry is a non-empty line of the file, a       *)
(* magnet link or the url of a file.                                       *)
(***************************************************************************)
LegacyEntries == {"magnet", "https"}

LegacyInit ==
    /\ urls = <<"http">>
    /\ concurrent = 1
    /\ stopOnError = FALSE
    /\ config = [maxRetries |-> 1, retryDelay |-> MaxDelay, sections |-> FALSE,
                 seedTime |-> 0, ratioLimit |-> 0]
    /\ BatchIdle
    /\ env = NoEnv
    /\ disk = NoDisk
    /\ dl = NoCall
    /\ ProgressIdle
    /\ IdleBut("legacy")
    /\ legacy \in [phase : {"reading"}, readable : BOOLEAN,
                   entries : UNION {[1..n -> LegacyEntries] : n \in 0..MaxUrls},
                   pos : {1}, outcome : {<<>>}, errorsLogged : {0},
                   exitCode : {Absent}]
    /\ ~legacy.readable => legacy.entries = <<>>

\* the callback of fs.readFile: an error is printed and nothing follows, else
\* the lines are split and downloadSequentially is called
LegacyRead ==
    /\ legacy.phase = "reading"
    /\ legacy' = IF ~legacy.readable
                 THEN [legacy EXCEPT !.phase = "readerror", !.errorsLogged = 1]
                 ELSE [legacy EXCEPT
                          !.phase = "loop",
                          !.outcome = [k \in 1..Len(legacy.entries) |-> "none"]]
    /\ UNCHANGED offLegacy

\* for (const url of urls): downloadTorrent or downloadFile is awaited
LegacyIterate ==
    /\ legacy.phase = "loop"
    /\ legacy.pos <= Len(legacy.entries)
    /\ legacy' = [legacy EXCEPT !.phase = "awaiting",
                                !.outcome[legacy.pos] = "started"]
    /\ UNCHANGED offLegacy

\* the awaited promise resolves: the next iteration
LegacyResolves ==
    /\ legacy.phase = "awaiting"
    /\ legacy' = [legacy EXCEPT !.phase = "loop", !.pos = @ + 1,
                                !.outcome[legacy.pos] = "finished"]
    /\ UNCHANGED offLegacy

\* catch (err) { console.error(...); break; }
BreaksLoop(l) == [l EXCEPT !.phase = "after"]

\* the awaited promise rejects: the catch block
LegacyRejects ==
    /\ legacy.phase = "awaiting"
    /\ legacy' = BreaksLoop([legacy EXCEPT !.outcome[legacy.pos] = "failed",
                                           !.errorsLogged = @ + 1])
    /\ UNCHANGED offLegacy

\* after the loop: console.log('All downloads finished.'); process.exit(0)
LegacyExits ==
    /\ \/ legacy.phase = "after"
       \/ legacy.phase = "loop" /\ legacy.pos > Len(legacy.entries)
    /\ legacy' = [legacy EXCEPT !.phase = "exited", !.exitCode = 0]
    /\ UNCHANGED offLegacy

LegacyNext ==
    \/ LegacyRead
    \/ LegacyIterate
    \/ LegacyResolves
    \/ LegacyRejects
    \/ LegacyExits

LegacySpec == LegacyInit /\ [][LegacyNext]_vars

(***************************************************************************)
(* The speed sample of one entry of the Progress Tracker, on the clock:    *)
(* startDownload sets it, every updateProgress passes through              *)
(* calculateSpeed.  Speeds are in bytes per second and exact: the clock    *)
(* advances by divisors of a second.                                       *)
(***************************************************************************)
\* Date.now() between two calls of updateProgress: the same millisecond, half
\* a second later, a second later
Ticks == {0, MsPerSecond \div 2, MsPerSecond}

\* the bytes one chunk adds
ChunkBytes == 0..MaxSize

\* calculateSpeed(downloadId, downloaded) at time now for an entry with the
\* stored sample st: the sample it leaves and the speed it returns
CalculateSpeedAlwaysMoves(st, now, downloaded) ==
    LET lastUpdate == IF st.lastUpdate = 0 THEN now ELSE st.lastUpdate
        timeDiff == now - lastUpdate
        bytesDiff == downloaded - st.lastDownloaded
    IN  IF timeDiff > 0
        THEN LET speed == (bytesDiff * MsPerSecond) \div timeDiff
             IN  [stored |-> [lastUpdate |-> now, lastDownloaded |-> downloaded,
                              speed |-> speed],
                  ret |-> speed]
        ELSE [stored |-> [st EXCEPT !.lastDownloaded = downloaded],
              ret |-> st.speed]

CalculateSpeed(st, now, downloaded) ==
    LET lastUpdate == IF st.lastUpdate = 0 THEN now ELSE st.lastUpdate
        timeDiff == now - lastUpdate
        bytesDiff == downloaded - st.lastDownloaded
    IN  IF timeDiff > 0
        THEN LET speed == (bytesDiff * MsPerSecond) \div timeDiff
             IN  [stored |-> [lastUpdate |-> now, lastDownloaded |-> downloaded,
                              speed |-> speed],
                  ret |-> speed]
        ELSE [stored |-> st, ret |-> st.speed]

SampleInit ==
    /\ urls = <<"http">>
    /\ concurrent = 1
    /\ stopOnError = FALSE
    /\ config = [maxRetries |-> 1, retryDelay |-> MaxDelay, sections |-> FALSE,
                 seedTime |-> 0, ratioLimit |-> 0]
    /\ BatchIdle
    /\ env = NoEnv
    /\ disk = NoDisk
    /\ dl = NoCall
    /\ ProgressIdle
    /\ IdleBut("sample")
    /\ sample \in {[NoSample EXCEPT !.phase = "idle", !.now = t] :
                      t \in {MsPerSecond, MsPerSecond + MsPerSecond \div 2}}

\* startDownload: downloaded 0, speed 0, lastDownloaded 0, lastUpdate now
SampleStart ==
    /\ sample.phase = "idle"
    /\ sample' = [sample EXCEPT
                     !.phase = "started",
                     !.stored = [lastUpdate |-> sample.now, lastDownloaded |-> 0,
                                 speed |-> 0]]
    /\ UNCHANGED offSample

\* updateProgress of the entry, el ms later with n more bytes: downloaded is
\* set, then calculateSpeed runs
SampleUpdate(el, n) ==
    /\ sample.phase \in {"started", "called"}
    /\ sample.now + el <= ClockEnd
    /\ sample.downloaded + n <= 2 * MaxSize
    /\ LET t == sample.now + el
           d == sample.downloaded + n
           r == CalculateSpeed(sample.stored, t, d)
       IN  sample' = [sample EXCEPT !.phase = "called", !.now = t,
                                    !.downloaded = d, !.before = sample.stored,
                                    !.stored = r.stored, !.ret = r.ret]
    /\ UNCHANGED offSample

SampleNext ==
    \/ SampleStart
    \/ \E el \in Ticks, n \in ChunkBytes : SampleUpdate(el, n)

SampleSpec == SampleInit /\ [][SampleNext]_vars

(***************************************************************************)
(* downloadConcurrently called with any maxConcurrent: 0, 1 (which         *)
(* downloadMultiple never passes on), more than the list holds; the list   *)
(* may be empty.  Continuations run; whether a transfer settles is up to   *)
(* the network.                                                            *)
(***************************************************************************)
ConcInit ==
    /\ urls \in BatchLists \cup {<<>>}
    /\ concurrent \in 0..(MaxConcurrent + 1)
    /\ stopOnError = FALSE
    /\ config \in [maxRetries : BatchRetries, retryDelay : {MaxDelay},
                   sections : {FALSE}, seedTime : {0}, ratioLimit : {0}]
    /\ BatchIdle
    /\ PartsIdle

\* downloadConcurrently(urls, maxConcurrent): urls.map(async ...) calls
\* downloadSingle for every url, then executeConcurrently is entered; its loop
\* has no iteration for an empty list
CallConcurrently ==
    /\ pc = "idle"
    /\ \E destThrows \in [1..N -> BOOLEAN] :
          task' = [j \in 1..N |-> StartTransfer(urls[j], destThrows[j])]
    /\ pc' = IF N = 0 THEN "all" ELSE "exec"
    /\ UNCHANGED <<parts, inputs, i, results, errors, next, executing, raceSet,
                   settled, returned>>

ConcContinuations ==
    \/ CallConcurrently
    \/ \E j \in 1..N : ConcRecord(j)
    \/ ExecPush
    \/ \E j \in 1..N : WrapperSettles(j)
    \/ ConcReturn

ConcNext ==
    \/ ConcContinuations
    \/ \E j \in 1..N : AttemptSucceeds(j)
    \/ \E j \in 1..N : AttemptFails(j)
    \/ \E j \in 1..N : SleepElapses(j)
    \/ \E j \in 1..N : AttemptTimesOut(j)

ConcFairSpec ==
    /\ ConcInit
    /\ [][ConcNext]_vars
    /\ WF_vars(ConcContinuations)

(***************************************************************************)
(* One attempt of performDownload through its redirects.  The server       *)
(* answers the first chain requests with a 3xx that carries a Location,    *)
(* then with its final response; a chain longer than maxRedirects looks to *)
(* the attempt like an endless one.                                        *)
(***************************************************************************)
\* the final response: 2xx; a status outside 2xx (a 3xx without Location too)
FinalResponses == {"ok", "status"}

TooManyAfter(redirectCount, maxRedirects) == redirectCount > maxRedirects

\* if (redirectCount >= this.config.get('protocols', 'http').maxRedirects)
TooMany(redirectCount, maxRedirects) == redirectCount >= maxRedirects

RedirInit ==
    /\ urls = <<"http">>
    /\ concurrent = 1
    /\ stopOnError = FALSE
    /\ config = [maxRetries |-> 1, retryDelay |-> MaxDelay, sections |-> FALSE,
                 seedTime |-> 0, ratioLimit |-> 0]
    /\ BatchIdle
    /\ env = NoEnv
    /\ disk = NoDisk
    /\ dl = NoCall
    /\ ProgressIdle
    /\ IdleBut("redir")
    /\ redir \in [phase : {"idle"}, maxRedirects : 0..MaxRedirects,
                  chain : 0..(MaxRedirects + 2), final : FinalResponses,
                  requests : {0}, redirectCount : {0}, error : {"none"}]

\* performDownload: redirectCount = 0, performRequest(url)
RedirCall ==
    /\ redir.phase = "idle"
    /\ redir' = [redir EXCEPT !.phase = "requested", !.requests = 1]
    /\ UNCHANGED offRedir

\* the response callback: a redirect is refused (reject) or followed
\* (redirectCount++, performRequest); a status outside 2xx rejects; a 2xx goes
\* on to the body
RedirResponse ==
    /\ redir.phase = "requested"
    /\ redir' =
          IF redir.requests <= redir.chain
          THEN IF TooMany(redir.redirectCount, redir.maxRedirects)
               THEN [redir EXCEPT !.phase = "rejected", !.error = "toomany"]
               ELSE [redir EXCEPT !.redirectCount = @ + 1, !.requests = @ + 1]
          ELSE IF redir.final = "ok"
          THEN [redir EXCEPT !.phase = "receiving"]
          ELSE [redir EXCEPT !.phase = "rejected", !.error = "status"]
    /\ UNCHANGED offRedir

\* req.on('error'), or req.on('timeout') when no response comes within
\* download.timeout: reject
RedirRequestFails ==
    /\ redir.phase = "requested"
    /\ redir' = [redir EXCEPT !.phase = "rejected", !.error = "request"]
    /\ UNCHANGED offRedir

RedirNext ==
    \/ RedirCall
    \/ RedirResponse
    \/ RedirRequestFails

\* a request is answered, or its timeout fires
RedirFairSpec ==
    /\ RedirInit
    /\ [][RedirNext]_vars
    /\ WF_vars(RedirNext)

(***************************************************************************)
(* Shorthands of the properties.                                           *)
(***************************************************************************)
InFlightCount == Cardinality({j \in 1..N : task[j].status \in InFlight})
Attempted == {j \in 1..N : task[j].dsCalls > 0}
Failed == {j \in 1..N : task[j].status = "failure"}
Succeeded == {j \in 1..N : task[j].status = "success"}
Sequential == UseSequential(concurrent)
AllFail(log) == \A m \in 1..Len(log) : log[m] = "fail"

(***************************************************************************)
(* C1: in a concurrent batch the number of transfers started and not yet   *)
(* at a terminal outcome never exceeds the concurrency limit.              *)
(***************************************************************************)
C1_BoundedConcurrency == InFlightCount <= concurrent

(***************************************************************************)
(* C2: the returned results have one entry per attempted target, and       *)
(* entry k is the entry of urls[k], whatever the completion order.         *)
(***************************************************************************)
C2_ResultsInInputOrder ==
    pc = "done" =>
        /\ Len(returned.results) = Cardinality(Attempted)
        /\ \A k \in 1..Len(returned.results) : returned.results[k].url = urls[k]

\* a concurrent batch has returned whose completion order was not the input order
C2_Witness ==
    /\ pc = "done"
    /\ ~Sequential
    /\ results # returned.results
    /\ \E k \in 1..Len(results) : results[k].url # urls[k]

(***************************************************************************)
(* C3 as stated: for every returned batch, successful + failed equals the  *)
(* number of input targets.                                                *)
(***************************************************************************)
C3_SumEqualsTotal ==
    pc = "done" =>
        returned.stats.successful + returned.stats.failed = returned.stats.total

(***************************************************************************)
(* C3 amended: successful + failed equals the number of result entries;    *)
(* it equals the number of input targets unless the batch ran sequentially *)
(* with stopOnError and met a failure; three targets of which exactly the  *)
(* second fails all its retries give 2 successes and 1 failure.            *)
(***************************************************************************)
C3_SumEqualsAttempted ==
    pc = "done" =>
        LET s == returned.stats IN
        /\ s.successful + s.failed = Len(returned.results)
        /\ s.successful = Cardinality(Succeeded)
        /\ s.failed = Cardinality(Failed)
        /\ ~(Sequential /\ stopOnError /\ s.failed > 0)
              => s.successful + s.failed = s.total
        /\ (N = 3 /\ ~stopOnError /\ Failed = {2})
              => s.successful = 2 /\ s.failed = 1

\* 3 targets, limit 2, stopOnError off, the second fails every retry
C3_Witness ==
    /\ pc = "done"
    /\ N = 3 /\ concurrent = 2 /\ ~stopOnError
    /\ Failed = {2}
    /\ task[2].error = Err("transfer", config.maxRetries)
    /\ config.maxRetries >= 2

(***************************************************************************)
(* C4: with stopOnError off, a failing target (unsupported, or all retries *)
(* failed) is one failure entry carrying its error, and every target of    *)
(* the list is attempted exactly once.                                     *)
(***************************************************************************)
C4_FailureIsolated ==
    /\ \A j \in 1..N : task[j].dsCalls <= 1
    /\ (~stopOnError /\ pc = "done") =>
          /\ Len(returned.results) = N
          /\ Len(returned.errors) = Cardinality(Failed)
          /\ \A j \in 1..N :
                /\ task[j].dsCalls = 1
                /\ task[j].status \in Recorded
                /\ returned.results[j].url = urls[j]
                /\ returned.results[j].success = (task[j].status = "success")
                /\ task[j].status = "failure" =>
                      /\ returned.results[j].error = task[j].error
                      /\ task[j].error # NoError
                      /\ \E k \in 1..Len(returned.errors) :
                            returned.errors[k] = returned.results[j]

\* an unsupported target and a target out of retries failed, a third succeeded
C4_Witness ==
    /\ pc = "done"
    /\ ~stopOnError
    /\ \E a, b, c \in 1..N :
          /\ task[a].error.kind = "unsupported" /\ task[a].status = "failure"
          /\ task[b].error = Err("transfer", config.maxRetries)
          /\ task[b].status = "failure"
          /\ a < c /\ b < c /\ task[c].status = "success"

(***************************************************************************)
(* C5: sequential mode with stopOnError: nothing is started after the      *)
(* first failed target; the results are the targets up to and including    *)
(* that failure.                                                           *)
(***************************************************************************)
C5_SequentialStopOnError ==
    (Sequential /\ stopOnError) =>
        /\ \A j \in 1..N : task[j].status \in {"rejected", "failure"} =>
              \A m \in (j + 1)..N : task[m].status = "unstarted" /\ task[m].dsCalls = 0
        /\ (pc = "done" /\ Failed # {}) =>
              \E f \in Failed :
                 /\ Len(returned.results) = f
                 /\ \A k \in 1..f : returned.results[k].url = urls[k]
                 /\ \A k \in 1..(f - 1) : returned.results[k].success
                 /\ ~returned.results[f].success

\* the batch stopped at a failure that was not the last target
C5_Witness ==
    /\ pc = "done"
    /\ Sequential /\ stopOnError
    /\ Failed # {}
    /\ Len(returned.results) < N
    /\ Len(returned.results) > 1

(***************************************************************************)
(* C6: concurrent mode with stopOnError: once a failure is recorded no     *)
(* transfer that was not started is started, transfers in flight stay in   *)
(* flight until their terminal outcome, and the batch returns only when    *)
(* none is in flight.                                                      *)
(***************************************************************************)
C6_ConcurrentStopOnError ==
    [][(~Sequential /\ stopOnError /\ Len(errors) > 0) =>
          /\ \A j \in 1..N :
                /\ task[j].status = "unstarted" => task'[j].status = "unstarted"
                /\ task[j].status \in InFlight =>
                      task'[j].status \in InFlight \cup Terminal
          /\ pc' = "done" => \A j \in 1..N : task'[j].status \in Recorded]_vars

\* a failure was recorded first and a transfer in flight then succeeded
C6_Witness ==
    /\ pc = "done"
    /\ ~Sequential /\ stopOnError
    /\ Len(results) >= 2
    /\ ~results[1].success
    /\ \E k \in 2..Len(results) :
          results[k].success /\ task[results[k].index].calls >= 2

(***************************************************************************)
(* C7: with concurrency 1 at most one transfer is in flight, transfer j+1  *)
(* starts only after transfer j reached its terminal outcome, and the      *)
(* outcomes are recorded in input order.                                   *)
(***************************************************************************)
C7_StrictlySequential ==
    concurrent = 1 =>
        /\ InFlightCount <= 1
        /\ \A j \in 1..(N - 1) :
              task[j + 1].status # "unstarted" => task[j].status \in Recorded
        /\ \A k \in 1..Len(results) : results[k].url = urls[k]

\* the third transfer runs after the first two have ended
C7_Witness ==
    /\ concurrent = 1
    /\ N = 3
    /\ task[1].calls > 0 /\ task[2].calls > 0
    /\ task[3].status = "running"
    /\ Len(results) = 2

(***************************************************************************)
(* C8: downloadSingle dispatches to the first strategy, in the order       *)
(* magnet, video, SFTP, FTP, HTTP(S), whose recognizer accepts the target; *)
(* a target no recognizer accepts fails as unsupported, nothing started.   *)
(***************************************************************************)
ClaimedOrder == <<"torrent", "youtube", "sftp", "ftp", "http">>

Accepts(s, u) ==
    CASE s = "torrent" -> isValidMagnetUri(u)
      [] s = "youtube" -> isValidYouTubeUrl(u)
      [] s = "sftp"    -> isValidSftpUrl(u)
      [] s = "ftp"     -> isValidFtpUrl(u)
      [] s = "http"    -> isValidUrl(u)

FirstAccepting(t) ==
    LET hits == {k \in 1..Len(ClaimedOrder) : Accepts(ClaimedOrder[k], UrlOf(t))}
    IN  IF hits = {} THEN "none"
        ELSE ClaimedOrder[CHOOSE k \in hits : \A m \in hits : k <= m]

C8_DispatchPriority ==
    \A j \in Attempted :
        /\ task[j].strategy = FirstAccepting(urls[j])
        /\ FirstAccepting(urls[j]) = "none" =>
              /\ task[j].status \in {"rejected", "failure"}
              /\ task[j].error.kind = "unsupported"
              /\ task[j].calls = 0
        /\ task[j].calls > 0 => FirstAccepting(urls[j]) # "none"

\* a target that two recognizers accept went to the video strategy
C8_Witness ==
    \E j \in Attempted :
        /\ isValidYouTubeUrl(UrlOf(urls[j]))
        /\ isValidUrl(UrlOf(urls[j]))
        /\ task[j].strategy = "youtube"
        /\ task[j].calls > 0

(***************************************************************************)
(* C9: downloadWithRetry calls the attempt at most maxRetries times,       *)
(* sleeps retryDelay * 2^(a-1) after failed attempt a < maxRetries, and    *)
(* does not sleep after the last attempt.                                  *)
(***************************************************************************)
C9_RetryBackoff ==
    \A j \in 1..N : task[j].strategy \in RetryStrategies =>
        LET t == task[j] IN
        /\ t.calls <= config.maxRetries
        /\ Len(t.sleeps) <= config.maxRetries - 1
        /\ \A a \in 1..Len(t.sleeps) : t.sleeps[a] = config.retryDelay * 2^(a - 1)
        /\ t.status = "running" => Len(t.sleeps) = t.calls - 1
        /\ t.status = "sleeping" =>
              Len(t.sleeps) = t.calls /\ t.calls < config.maxRetries
        /\ t.status \in {"resolved", "success"} => Len(t.sleeps) = t.calls - 1
        /\ (t.status \in {"rejected", "failure"} /\ t.error.kind = "transfer") =>
              t.calls = config.maxRetries /\ Len(t.sleeps) = config.maxRetries - 1

\* three attempts failed; two sleeps lie between them
C9_Witness ==
    \E j \in 1..N :
        /\ task[j].strategy \in RetryStrategies
        /\ task[j].status = "failure"
        /\ task[j].calls = 3
        /\ Len(task[j].sleeps) = 2

(***************************************************************************)
(* C10: downloadWithRetry returns the result of the first attempt that     *)
(* succeeds and attempts nothing after it; when every attempt fails it     *)
(* throws the error of the last attempt.                                   *)
(***************************************************************************)
C10_RetryOutcome ==
    \A j \in 1..N : task[j].strategy \in RetryStrategies =>
        LET t == task[j] IN
        /\ t.status \in {"resolved", "success"} =>
              /\ Len(t.log) = t.calls
              /\ t.log[Len(t.log)] = "ok"
              /\ AllFail(SubSeq(t.log, 1, Len(t.log) - 1))
              /\ t.result = Len(t.log)
        /\ (t.status \in {"rejected", "failure"} /\ t.calls > 0) =>
              /\ Len(t.log) = config.maxRetries
              /\ AllFail(t.log)
              /\ t.error = Err("transfer", Len(t.log))

\* one target succeeded at a retry, another failed all of at least two attempts
C10_Witness ==
    \E a, b \in 1..N :
        /\ task[a].status = "success" /\ task[a].result >= 2
        /\ task[b].status = "failure" /\ task[b].error.kind = "transfer"
        /\ task[b].error.attempt >= 2 /\ task[b].error.attempt = config.maxRetries

(***************************************************************************)
(* C11: for every strategy, the torrent strategy included, a failure of    *)
(* the strategy reaches the caller only after maxRetries attempts with the *)
(* backoff sleeps retryDelay * 2^(a-1) between them.                       *)
(***************************************************************************)
C11_FailureAfterAllRetries ==
    \A j \in 1..N :
        (/\ task[j].status \in {"rejected", "failure"}
         /\ task[j].strategy # "none"
         /\ task[j].error.kind # "exists") =>
            /\ task[j].calls = config.maxRetries
            /\ Len(task[j].sleeps) = config.maxRetries - 1
            /\ \A a \in 1..Len(task[j].sleeps) :
                  task[j].sleeps[a] = config.retryDelay * 2^(a - 1)

C13_EveryTaskTerminates ==
    \A j \in 1..MaxUrls :
        (j \in 1..N /\ task[j].status \in InFlight)
            ~> (j \in 1..N /\ task[j].status \in Terminal)

(***************************************************************************)
(* C14: with resume enabled, an HTTP transfer requests from offset S > 0   *)
(* and appends only if a marker exists and the size S of the destination   *)
(* equals the byte count the marker records; otherwise (no marker, no      *)
(* file, sizes differ) it requests from 0 and overwrites.                  *)
(***************************************************************************)
C14_ResumeOnlyOnMatch ==
    (env.enableResume /\ dl.phase \in Sent /\ dl.dest \in Paths) =>
        LET match == /\ dl.markerAtEntry # Absent
                     /\ dl.sizeAtEntry = dl.markerAtEntry
            from == IF match THEN dl.sizeAtEntry ELSE 0
        IN  /\ dl.reqFrom = from
            /\ dl.flags \in {"none", IF from > 0 THEN "a" ELSE "w"}

(***************************************************************************)
(* C15: a destination holding S bytes (0 < S < size of the resource) with  *)
(* a marker recording S: under every duplicate policy that lets the        *)
(* download go on, the request starts at offset S, and after a success     *)
(* the destination file has the size of the resource.                      *)
(***************************************************************************)
C15_ResumeCompletes ==
    (/\ env.enableResume
     /\ env.size0 \in 1..(env.resourceSize - 1)
     /\ env.marker0 = env.size0
     /\ env.duplicateHandling # "skip"
     /\ dl.phase \in Sent) =>
        /\ dl.reqFrom = env.size0
        /\ dl.phase = "success" => disk[dl.dest].size = env.resourceSize

C17_MarkerFailureHarmless ==
    dl.markerFailed => dl.phase # "crashed"

(***************************************************************************)
(* C18: when completeDownload(id) or errorDownload(id) has returned, id    *)
(* has no entry in downloads, startTimes or lastUpdate, and the entries    *)
(* of every other id are what they were before the call.                   *)
(***************************************************************************)
C18_EndReleasesOnlyItsEntry ==
    [][(call' # call /\ call'.op \in {"complete", "error"}) =>
          /\ ~Present(tracker', call'.id)
          /\ call'.id \notin tracker'.startTimes
          /\ call'.id \notin tracker'.lastUpdate
          /\ \A o \in Ids \ {call'.id} :
                /\ tracker'.downloads[o] = tracker.downloads[o]
                /\ (o \in tracker'.startTimes) = (o \in tracker.startTimes)
                /\ (o \in tracker'.lastUpdate) = (o \in tracker.lastUpdate)]_vars

\* errorDownload ended the HTTP transfer after completeDownload had ended the
\* first file of a multi-file torrent, whose other entries are still there
C18_Witness ==
    /\ call.op = "error"
    /\ \E x, y \in Xfers :
          /\ call.id = Agg(x)
          /\ feed[x].phase = "failure" /\ feed[x].received > 0
          /\ feed[y].phase = "receiving" /\ FileIds(y) # {}
          /\ \E f \in 1..MaxFiles : Present(tracker, <<y, f>>)
          /\ ~Present(tracker, <<y, 1>>)
          /\ Present(tracker, Agg(y)) /\ tracker.downloads[Agg(y)].downloaded > 0

(***************************************************************************)
(* C19: once a transfer has delivered its outcome (success or failure) no  *)
(* entry it created is left in the tracker: not its aggregate entry, not   *)
(* an entry of a file of a multi-file torrent; for every strategy and      *)
(* failure path, a torrent client error included.                          *)
(***************************************************************************)
C19_NoEntryAfterOutcome ==
    \A x \in Xfers : feed[x].phase \in Ended =>
        \A f \in 0..MaxFiles :
            /\ ~Present(tracker, <<x, f>>)
            /\ <<x, f>> \notin tracker.startTimes
            /\ <<x, f>> \notin tracker.lastUpdate

(***************************************************************************)
(* C20: after every chunk a strategy has received, the downloaded value of *)
(* the transfer's entry equals the bytes received so far, whether or not   *)
(* the line was rendered.                                                  *)
(***************************************************************************)
C20_EveryChunkCounted ==
    \A x \in Xfers :
        (feed[x].phase = "receiving" /\ Present(tracker, Agg(x))) =>
            tracker.downloads[Agg(x)].downloaded = feed[x].received

(***************************************************************************)
(* C21: between the first start of a task and its terminal call, two       *)
(* renderings of its progress line are at least the display interval       *)
(* (1000 ms) apart, also across a retry that calls startDownload again.    *)
(* Violated: startDownload replaces the entry, the new entry has no        *)
(* lastDisplayUpdate, and the first chunk of the retry renders at once --  *)
(* less than 1000 ms after the last line when download.retryDelay is       *)
(* below the interval.                                                     *)
(***************************************************************************)
C21_RenderInterval ==
    (display.rendered # Absent /\ display.previous # Absent) =>
        display.rendered - display.previous >= DisplayInterval

(***************************************************************************)
(* C22: for one task, the progress percentage computed from the tracker's  *)
(* entry never decreases between the task's start and its terminal call,   *)
(* whatever the attempts, retries and chunks.                              *)
(* Violated: the response of a retry calls startDownload again, which      *)
(* replaces the entry with one whose downloaded is 0.                      *)
(***************************************************************************)
C22_PercentageMonotone ==
    [][\A x \in Xfers :
         (Present(tracker, Agg(x)) /\ Present(tracker', Agg(x))) =>
             ProgressLeq(tracker.downloads[Agg(x)], tracker'.downloads[Agg(x)])]_vars

(***************************************************************************)
(* C23: the colour band of the bar is red from 0 to below 50 percent,      *)
(* yellow from 50 to below 100 and green only at 100: for every pair with  *)
(* downloaded < totalSize the band is not green.                           *)
(* Violated: the bands are tested as 0..49 and 50..99, and a percentage    *)
(* strictly between 49 and 50 or between 99 and 100 falls to the else      *)
(* branch, which is green.                                                 *)
(***************************************************************************)
C23_GreenOnlyWhenComplete ==
    (bar.phase = "drawn" /\ bar.downloaded < bar.totalSize) =>
        bar.colour # "green"

(***************************************************************************)
(* C24: parseUrlsFromContent returns, in file order, exactly the lines     *)
(* that after trimming are non-blank, do not start with '#' or '//', and   *)
(* after quote stripping are valid targets; each malformed line is skipped *)
(* with one warning; and every kept line is attempted (a list with one     *)
(* malformed line, one HTTP URL and one magnet URI leads to exactly 2      *)
(* attempted downloads).  The batch is one that does not stop at its first *)
(* error, as in the scenario.                                              *)
(***************************************************************************)
Candidate(k) ==
    Trim(file.lines[k]) # <<>> /\ ~IsComment(Trim(file.lines[k]))

TargetOf(k) == StripQuotes(Trim(file.lines[k]))

Kept == {k \in 1..Len(file.lines) : Candidate(k) /\ LineAccepted(TargetOf(k))}

Malformed == {k \in 1..Len(file.lines) : Candidate(k) /\ ~LineAccepted(TargetOf(k))}

\* the n-th element of a set of line numbers, in file order
Nth(S, n) == CHOOSE k \in S : Cardinality({m \in S : m < k}) = n - 1

C24_ParsedList ==
    /\ file.phase \in {"parsed", "raised"} /\ file.exists =>
          /\ Len(file.warned) = Cardinality(Malformed)
          /\ \A n \in 1..Len(file.warned) : file.warned[n] = Nth(Malformed, n)
    /\ file.phase = "parsed" =>
          /\ N = Cardinality(Kept)
          /\ \A n \in 1..N : urls[n] = TargetOf(Nth(Kept, n))[1]
    /\ file.phase = "raised" /\ file.exists => Kept = {}
    /\ (pc = "done" /\ ~(stopOnError /\ UseSequential(concurrent))) =>
          Cardinality(Attempted) = Cardinality(Kept)

\* the scenario: one malformed line, one HTTP URL, one magnet URI; the batch
\* has returned with exactly 2 downloads attempted and one warning
C24_Witness ==
    /\ pc = "done"
    /\ Len(file.lines) = 3
    /\ Cardinality(Malformed) = 1
    /\ Len(file.warned) = 1
    /\ \E a, b \in Kept : Dispatch(TargetOf(a)[1]) = "http"
                          /\ Dispatch(TargetOf(b)[1]) = "torrent"
    /\ Cardinality(Attempted) = 2

(***************************************************************************)
(* C25: every line of a list file that the recognizer of some strategy     *)
(* accepts (HTTP/HTTPS, magnet, FTP, SFTP, video) is kept by the parser    *)
(* and attempted: the lines the parser accepts are the lines               *)
(* downloadSingle can dispatch.                                            *)
(* Violated: the parser keeps a line only if isValidUrl (http:, https:) or *)
(* isValidMagnetUri accepts it; an ftp:// or sftp:// line is skipped with  *)
(* the warning 'Invalid URL skipped'.                                      *)
(***************************************************************************)
Dispatchable(k) ==
    /\ Candidate(k)
    /\ Len(TargetOf(k)) = 1
    /\ TargetOf(k)[1] \in AllTargets
    /\ Dispatch(TargetOf(k)[1]) # "none"

C25_ParserKeepsDispatchable ==
    (file.phase \in {"parsed", "raised"} /\ file.exists) =>
        /\ \A k \in 1..Len(file.lines) :
              Dispatchable(k) => \E n \in 1..N : urls[n] = TargetOf(k)[1]
        /\ \A n \in 1..N : Dispatch(urls[n]) # "none"

(***************************************************************************)
(* C26: a batch call raises to its caller, instead of returning a result,  *)
(* exactly when a batch-level precondition is violated: the target list is *)
(* empty or the concurrency limit is <= 0.                                 *)
(* Violated: no code checks the limit; with a limit of 0 the batch takes   *)
(* the concurrent path, races after every push, and returns a result.      *)
(***************************************************************************)
C26_RaisesExactlyOnPrecondition ==
    file.exists =>
        /\ pc = "raised" => (Kept = {} \/ concurrent <= 0)
        /\ pc = "done" => (Kept # {} /\ concurrent >= 1)

(***************************************************************************)
(* C27: a logger call that throws during a transfer never changes the      *)
(* transfer's outcome: a transfer whose bytes were all received and        *)
(* written is still reported as a success.                                 *)
(* Violated: logDownloadComplete is called inside the try block of         *)
(* download(); when it throws, the catch block rejects the download whose  *)
(* file is complete.                                                       *)
(***************************************************************************)
C27_LoggerNeverChangesOutcome ==
    dl.finished => dl.phase \in {"resolved", "success"}

(***************************************************************************)
(* C28: no two tasks of one batch that are in flight at the same time      *)
(* write the same destination path or the same resume marker, also when    *)
(* two targets resolve to the same file name under the rename policy.      *)
(* Violated: a concurrent batch resolves every destination before any file *)
(* is created, so two targets with one file name get the same path.        *)
(***************************************************************************)
C28_NoSharedDestination ==
    \A a, b \in Jobs :
        (a # b /\ dests # NoDests
         /\ dests.job[a].phase = "writing" /\ dests.job[b].phase = "writing") =>
            dests.job[a].path # dests.job[b].path

(***************************************************************************)
(* C29 as stated: at the completion of every batch the batch-complete      *)
(* notification and the batch-complete log event are each issued exactly   *)
(* once, whatever the number of successes.  Violated by a batch in which   *)
(* every target failed: the notification is guarded by successCount > 0.   *)
(***************************************************************************)
C29_BothExactlyOnce ==
    pc = "done" => (emitted.log = 1 /\ emitted.notification = 1)

(***************************************************************************)
(* C29, amended: at the completion of every batch (sequential or           *)
(* concurrent) the batch-complete log event is issued exactly once, and    *)
(* the batch-complete notification exactly once if at least one target     *)
(* succeeded and not at all if every target failed; neither is issued      *)
(* before the batch completes.                                             *)
(***************************************************************************)
C29_CompleteEvents ==
    /\ pc = "done" =>
          /\ emitted.log = 1
          /\ emitted.notification = IF Succeeded # {} THEN 1 ELSE 0
    /\ pc # "done" => emitted = NoEmitted

\* a concurrent batch of two targets that both failed has completed
C29_Witness ==
    /\ pc = "done"
    /\ ~Sequential
    /\ N = 2
    /\ Failed = 1..N
    /\ emitted.log = 1
    /\ emitted.notification = 0

(***************************************************************************)
(* C30: in the single-file script, when the download of a list entry       *)
(* fails, the error is logged and the script goes on with the next entry:  *)
(* every entry after a failed one is still attempted.                      *)
(* Violated: the catch block of the loop logs the error and breaks; the    *)
(* script prints 'All downloads finished.' and exits with code 0.          *)
(***************************************************************************)
C30_LegacyContinuesAfterFailure ==
    legacy.phase = "exited" =>
        \A k \in 1..Len(legacy.entries) :
            legacy.outcome[k] = "failed" =>
                \A m \in (k + 1)..Len(legacy.entries) : legacy.outcome[m] # "none"

\* C31: calculateSpeed, when time has passed since the stored sample, returns
\* the bytes gained over the seconds passed and moves the sample to the
\* present time and byte count; when no time has passed it returns the stored
\* speed and leaves the sample (lastUpdate, lastDownloaded, speed) as it was.
C31_SpeedSample ==
    sample.phase = "called" =>
        LET timeDelta == sample.now - sample.before.lastUpdate
            bytesDelta == sample.downloaded - sample.before.lastDownloaded
        IN  IF timeDelta > 0
            THEN /\ sample.ret * timeDelta = bytesDelta * MsPerSecond
                 /\ sample.stored.lastUpdate = sample.now
                 /\ sample.stored.lastDownloaded = sample.downloaded
            ELSE /\ sample.ret = sample.before.speed
                 /\ sample.stored = sample.before

\* a call in the same millisecond as the stored sample, with more bytes and a
\* speed stored, after a call that moved the sample
C31_Witness ==
    /\ sample.phase = "called"
    /\ sample.now = sample.before.lastUpdate
    /\ sample.downloaded > sample.before.lastDownloaded
    /\ sample.before.speed > 0
    /\ sample.ret = sample.before.speed

\* C32: during one HTTP transfer, two consecutive writes of the resume marker
\* of the destination (its creation or an update) are at least 1000 ms apart.
C32_MarkerWritesApart ==
    (display.marked # Absent /\ display.markedBefore # Absent) =>
        display.marked - display.markedBefore >= ResumeInterval

\* C33: an HTTP transfer that succeeds after one or more failed attempts (from
\* a server that honours Range) leaves a destination that holds each byte of
\* the resource exactly once: it has the size of the resource.
C33_RetryAppendsOnce ==
    (/\ dl.phase \in {"resolved", "success"}
     /\ dl.attempt > 1
     /\ env.honoursRange) =>
        disk[dl.dest].size = env.resourceSize

\* C35: a resume marker never records fewer bytes than before nor more than
\* were received; once a resumed transfer has started at offset S > 0 (the
\* marker recorded S at entry), the marker of its destination, if there is
\* one, records S bytes or more and no more than the transfer has counted.
C35_MarkerNeverBelowStart ==
    (/\ dl.phase \in {"receiving", "resolved", "sleeping", "failure"}
     /\ dl.flags = "a"
     /\ dl.startByte > 0
     /\ dl.markerAtEntry = dl.startByte
     /\ GetResumeInfo(disk, dl.dest) # Absent) =>
        /\ dl.startByte <= GetResumeInfo(disk, dl.dest)
        /\ GetResumeInfo(disk, dl.dest) <= dl.downloaded

\* C34: once an attempt of an HTTP task has been rejected it updates the
\* progress of the task no more: while a later attempt of the task receives,
\* the entry of the task shows the bytes that attempt has counted.
C34_OnlyTheRunningAttemptReports ==
    \A x \in Xfers :
        (/\ feed[x].strategy = "http"
         /\ feed[x].phase = "receiving"
         /\ feed[x].attempt > 1
         /\ Present(tracker, Agg(x))) =>
            tracker.downloads[Agg(x)].downloaded = feed[x].received

\* C36: isProgressActive is true exactly when at least one download entry
\* exists.
C36_ActiveIffEntries ==
    tracker.isProgressActive <=> \E id \in Ids : Present(tracker, id)

\* C37: updateProgress for an id without an entry changes nothing in the
\* Progress Tracker, and updateProgress for an id with an entry leaves the
\* entries of all other ids as they were.
C37_UpdateTouchesOnlyItsEntry ==
    [][call'.op = "update" =>
          /\ ~Present(tracker, call'.id) => tracker' = tracker
          /\ \A id \in Ids \ {call'.id} :
                /\ tracker'.downloads[id] = tracker.downloads[id]
                /\ id \in tracker'.startTimes <=> id \in tracker.startTimes
                /\ id \in tracker'.lastUpdate <=> id \in tracker.lastUpdate]_vars

\* updateProgress was called for the id of a failed HTTP transfer, whose entry
\* errorDownload had deleted, while the other transfer has an entry
C37_Witness ==
    /\ call.op = "update"
    /\ ~Present(tracker, call.id)
    /\ feed[call.id[1]].phase = "failure"
    /\ \E id \in Ids \ {call.id} : Present(tracker, id)

\* the transfer of input j has settled (there is no such input, or its
\* downloadSingle has resolved or rejected)
TransferSettled(j) == j <= N => task[j].status \in Terminal

\* one result per input, in input order
OnePerInput(rs) ==
    /\ Len(rs) = N
    /\ \A k \in 1..N : rs[k].index = k /\ rs[k].url = urls[k]

\* C38: for every maxConcurrent (0, 1 passed directly, more than the list
\* holds) and every list, if each transfer eventually settles then
\* executeConcurrently and the batch eventually return, and what is returned
\* has one settled result per input in input order.
C38_ConcurrentBatchReturns ==
    /\ [](pc = "done" => OnePerInput(returned.results))
    /\ (\A j \in 1..MaxUrls : <>TransferSettled(j)) => <>(pc = "done")

\* a batch of two or more returned under maxConcurrent 0
C38_Witness ==
    /\ pc = "done"
    /\ concurrent = 0
    /\ N >= 2
    /\ OnePerInput(returned.results)
    /\ \E k \in 1..N : ~returned.results[k].success

\* the sum of the sizes of the entries of rs at the positions ks
RECURSIVE SizeSum(_, _)
SizeSum(rs, ks) ==
    IF ks = {} THEN 0
    ELSE LET k == CHOOSE k \in ks : TRUE
         IN  rs[k].size + SizeSum(rs, ks \ {k})

FailedEntries(rs) == {rs[k] : k \in {k \in 1..Len(rs) : ~rs[k].success}}

\* C39: in every returned batch result the errors list holds exactly the
\* failed entries of results, stats.failed is its length, and stats.totalSize
\* is the sum of the sizes of the successful entries, in whatever order the
\* transfers completed.
C39_StatsMatchResults ==
    pc = "done" =>
        LET rs == returned.results
            es == returned.errors
        IN  /\ Range(es) = FailedEntries(rs)
            /\ Len(es) = Cardinality({k \in 1..Len(rs) : ~rs[k].success})
            /\ returned.stats.failed = Len(es)
            /\ returned.stats.totalSize =
                  SizeSum(rs, {k \in 1..Len(rs) : rs[k].success})

\* a concurrent batch of three returned: the last input completed before the
\* first, the second failed
C39_Witness ==
    /\ pc = "done"
    /\ ~UseSequential(concurrent)
    /\ N = 3
    /\ Len(results) = 3
    /\ results[1].index = 3 /\ results[1].success
    /\ results[3].index = 1 /\ results[3].success
    /\ ~results[2].success
    /\ returned.stats.totalSize = StatsSize(1) + StatsSize(3)

\* C40: within one HTTP attempt at most maxRedirects redirects are followed; a
\* chain of more than maxRedirects redirects ends the attempt with 'Too many
\* redirects' (unless a request of the chain itself fails), so an attempt in
\* an endless redirect loop comes to an end.
C40_RedirectsBounded ==
    /\ [](/\ redir.redirectCount <= redir.maxRedirects
          /\ redir.requests <= redir.maxRedirects + 1
          /\ (redir.phase \in {"receiving", "rejected"}
              /\ redir.chain > redir.maxRedirects) =>
                /\ redir.phase = "rejected"
                /\ redir.error \in {"toomany", "request"}
          /\ redir.error = "toomany" =>
                /\ redir.chain > redir.maxRedirects
                /\ redir.redirectCount = redir.maxRedirects)
    /\ <>(redir.phase \in {"receiving", "rejected"})

\* maxRedirects redirects were followed, one more arrived and was refused
C40_Witness ==
    /\ redir.phase = "rejected"
    /\ redir.error = "toomany"
    /\ redir.maxRedirects >= 2
    /\ redir.redirectCount = redir.maxRedirects
    /\ redir.chain = MaxRedirects + 2
====
